---- MODULE Spec2Model ----
(***************************************************************************)
(* Cost-aware budget tracking and execution gating of openagentic.         *)
(*                                                                         *)
(* The repository holds two revisions of the budget tracker                *)
(* (createCostTracker as a closure, and the class CostTrackerImpl), and    *)
(* several revisions of the guard wrapped around a provider call.  Every   *)
(* revision is modelled; tracker.impl and call.kind say which one runs.    *)
(*                                                                         *)
(* Money is kept in integer units of 1/UnitsPerCent cent, so that the      *)
(* fractional cents CostTrackerImpl.estimateCost returns are exact.        *)
(***************************************************************************)
EXTENDS Integers, Sequences, FiniteSets, TLC

VARIABLES
  tracker,   \* the CostTracker in use
  chat,      \* the chat() exchange in progress, if any
  call,      \* the guard pass suspended at its provider invocation, if any
  done,      \* the guard passes the most recent step brought to an end
  ret,       \* what the most recent operation returned or threw
  heap,      \* the trackers the chat() calls on one AI object have created
  exchanges, \* the chat() calls in flight on that object, one per slot
  inflight   \* the tool calls a caller runs as one batch on one tracker

vars == <<tracker, chat, call, done, ret, heap, exchanges, inflight>>

(***************************************************************************)
(* Bounds                                                                  *)
(***************************************************************************)
MaxHistory == 3
MaxToolCalls == 2
MaxTrackers == 2

(***************************************************************************)
(* Pricing table                                                           *)
(***************************************************************************)
\* per-token prices are stored in millionths of a dollar, so a cost of
\* tokens * price is in units of 1/10000 cent
UnitsPerCent == 10000

Cents(c) == c * UnitsPerCent

modelPricing ==
  [m \in {"gpt-4", "gpt-3.5-turbo", "claude-3-5-sonnet-20240620"} |->
     CASE m = "gpt-4" ->
            [max_tokens |-> 8192, max_input_tokens |-> 8192, max_output_tokens |-> 4096,
             input_cost_per_token |-> 30, output_cost_per_token |-> 60]
       [] m = "gpt-3.5-turbo" ->
            [max_tokens |-> 4096, max_input_tokens |-> 4096, max_output_tokens |-> 4096,
             input_cost_per_token |-> 1, output_cost_per_token |-> 2]
       [] m = "claude-3-5-sonnet-20240620" ->
            [max_tokens |-> 8192, max_input_tokens |-> 200000, max_output_tokens |-> 8192,
             input_cost_per_token |-> 3, output_cost_per_token |-> 15]]

HasPricing(model) == model \in DOMAIN modelPricing

DEFAULT_CHAR_TO_TOKEN_RATIO == 4
FALLBACK_MAX_TOKENS == 4096

(***************************************************************************)
(* Values a call returns: a result or a thrown error                       *)
(***************************************************************************)
\* an optional value is a sequence of length at most one
None == <<>>
Some(v) == <<v>>

Ok(v) == [ok |-> TRUE, val |-> v]

\* values that are not records in the program, kept as records so that any two
\* results can be compared: a promise not yet settled, a void return, and the
\* text of a model's answer
Pending == [settled |-> FALSE]
Undefined == [undefined |-> TRUE]
Response == [response |-> "content"]
Throw(e) == [ok |-> FALSE, err |-> e]

Min(a, b) == IF a <= b THEN a ELSE b
Max(a, b) == IF a >= b THEN a ELSE b

\* Math.ceil(a / b) for a >= 0, b > 0
CeilDiv(a, b) == (a + b - 1) \div b

\* Math.ceil of an amount of money, to whole cents
CeilToCent(u) == CeilDiv(u, UnitsPerCent) * UnitsPerCent

\* JavaScript truthiness of an optional number: undefined and 0 are falsy
Truthy(n) == n # None /\ n[1] # 0

RECURSIVE SumCost(_)
SumCost(h) == IF h = <<>> THEN 0 ELSE h[1].costCents + SumCost(Tail(h))

CountSource(h, s) == Cardinality({i \in DOMAIN h : h[i].source = s})

(***************************************************************************)
(* The budget tracker: t is [impl, maxCostCents, totalCostCents,           *)
(* usageHistory]                                                           *)
(***************************************************************************)
createCostTracker(impl, maxCostCents) ==
  [impl |-> impl, maxCostCents |-> maxCostCents, totalCostCents |-> 0, usageHistory |-> <<>>]

\* a faulty variant: the difference without the clamp at zero
getRemainingBudgetCents_Unclamped(t) == t.maxCostCents - t.totalCostCents

getRemainingBudgetCents(t) == Max(0, t.maxCostCents - t.totalCostCents)

\* a faulty variant: the boundary is excluded
canAfford_Strict(t, costCents) == getRemainingBudgetCents(t) > costCents

canAfford(t, costCents) == getRemainingBudgetCents(t) >= costCents

\* a faulty variant: the total is overwritten with the record's cost
addUsage_Overwrite(t, record) ==
  [t EXCEPT !.usageHistory = Append(@, record),
            !.totalCostCents = record.costCents]

addUsage(t, record) ==
  [t EXCEPT !.usageHistory = Append(@, record),
            !.totalCostCents = @ + record.costCents]

\* closure revision only: the lookup throws for a model without pricing
getModelPricing(model) ==
  IF HasPricing(model) THEN Ok(modelPricing[model]) ELSE Throw("Unknown model")

\* CostTrackerImpl only
getFallbackConfig ==
  IF HasPricing("gpt-4") THEN modelPricing["gpt-4"]
  ELSE IF HasPricing("gpt-3.5-turbo") THEN modelPricing["gpt-3.5-turbo"]
  ELSE [none |-> TRUE]

\* remainingBudgetPercentage <= num/den, as the floating-point comparison
\* decides it: with maxCostCents = 0 the quotient 0/0 is NaN and every
\* comparison with it is false
PercentageAtMost(t, num, den) ==
  /\ t.maxCostCents # 0
  /\ IF t.maxCostCents > 0
       THEN getRemainingBudgetCents(t) * den <= num * t.maxCostCents
       ELSE getRemainingBudgetCents(t) * den >= num * t.maxCostCents

getDefaultMaxTokens(t, model) ==
  IF t.impl = "closure"
    THEN IF getModelPricing(model).ok
           THEN Ok(Min(modelPricing[model].max_output_tokens, modelPricing[model].max_tokens))
           ELSE getModelPricing(model)
    ELSE IF ~HasPricing(model) THEN Ok(FALLBACK_MAX_TOKENS)
         ELSE IF PercentageAtMost(t, 1, 10)
                THEN Ok(Min(modelPricing[model].max_output_tokens, 512))
              ELSE IF PercentageAtMost(t, 3, 10)
                THEN Ok(Min(modelPricing[model].max_output_tokens, 2048))
              ELSE Ok(modelPricing[model].max_output_tokens)

\* the exact cost, in units, of the given token counts at a pricing entry
RawCost(config, inputTokens, outputTokens) ==
  inputTokens * config.input_cost_per_token + outputTokens * config.output_cost_per_token

\* The closure revision rounds the double-precision sum
\*   inputTokens * input_cost_per_token * 100 + outputTokens * output_cost_per_token * 100
\* with Math.ceil.  FloatAbove lists the token counts of this model for which
\* that sum is a rounding error above a whole number of cents (1000 * 0.00003
\* * 100 is 3.0000000000000004), so that Math.ceil yields the next cent; for
\* every other token count used here Math.ceil of the sum is the exact ceiling.
FloatAbove ==
  {<<"gpt-4", 0, 500>>, <<"gpt-4", 1000, 0>>, <<"gpt-4", 1000, 500>>,
   <<"claude-3-5-sonnet-20240620", 10000, 0>>}

CeilOfFloatSum(model, inputTokens, outputTokens) ==
  IF <<model, inputTokens, outputTokens>> \in FloatAbove
    THEN CeilToCent(RawCost(modelPricing[model], inputTokens, outputTokens) + 1)
    ELSE CeilToCent(RawCost(modelPricing[model], inputTokens, outputTokens))

estimateCost(t, model, inputTokens, outputTokens) ==
  IF t.impl = "closure"
    THEN IF getModelPricing(model).ok
           THEN Ok(CeilOfFloatSum(model, inputTokens, outputTokens))
           ELSE getModelPricing(model)
    ELSE IF ~HasPricing(model)
           THEN IF "none" \in DOMAIN getFallbackConfig THEN Ok(0)
                ELSE Ok(RawCost(getFallbackConfig, inputTokens, outputTokens))
           ELSE Ok(RawCost(modelPricing[model], inputTokens, outputTokens))

estimatedInputTokens(promptLength) == CeilDiv(promptLength, DEFAULT_CHAR_TO_TOKEN_RATIO)

\* the output-token figure estimateQueryCost uses; the argument counts only
\* when it is truthy
estimatedOutputTokens(t, model, promptLength, expectedOutputTokens) ==
  IF Truthy(expectedOutputTokens) THEN Ok(expectedOutputTokens[1])
  ELSE IF t.impl = "closure"
    THEN Ok(Min(modelPricing[model].max_output_tokens,
                CeilDiv(estimatedInputTokens(promptLength) * 3, 2)))
    ELSE getDefaultMaxTokens(t, model)

\* a faulty variant: the estimate leaves the output tokens out
estimateQueryCost_InputOnly(t, model, promptLength, expectedOutputTokens) ==
  IF t.impl = "closure" /\ ~getModelPricing(model).ok
    THEN getModelPricing(model)
    ELSE estimateCost(t, model, estimatedInputTokens(promptLength), 0)

estimateQueryCost(t, model, promptLength, expectedOutputTokens) ==
  IF t.impl = "closure" /\ ~getModelPricing(model).ok
    THEN getModelPricing(model)
    ELSE estimateCost(t, model, estimatedInputTokens(promptLength),
                      estimatedOutputTokens(t, model, promptLength, expectedOutputTokens).val)

\* a faulty variant: without the try/catch a failed estimate is thrown on
canAffordQuery_Uncaught(t, model, promptLength, expectedOutputTokens) ==
  IF estimateQueryCost(t, model, promptLength, expectedOutputTokens).ok
    THEN Ok(canAfford(t, estimateQueryCost(t, model, promptLength, expectedOutputTokens).val))
    ELSE estimateQueryCost(t, model, promptLength, expectedOutputTokens)

canAffordQuery(t, model, promptLength, expectedOutputTokens) ==
  IF estimateQueryCost(t, model, promptLength, expectedOutputTokens).ok
    THEN Ok(canAfford(t, estimateQueryCost(t, model, promptLength, expectedOutputTokens).val))
    ELSE Ok(TRUE)

\* a faulty variant: totalQueries counts the tool records only
getSummary_CountsTools(t) ==
  [totalCostCents |-> t.totalCostCents,
   maxCostCents |-> t.maxCostCents,
   remainingBudgetCents |-> getRemainingBudgetCents(t),
   budgetUsedPercentage |-> [num |-> t.totalCostCents * 100, den |-> t.maxCostCents],
   totalQueries |-> CountSource(t.usageHistory, "tool"),
   orchestratorQueries |-> CountSource(t.usageHistory, "orchestrator"),
   toolQueries |-> CountSource(t.usageHistory, "tool")]

\* budgetUsedPercentage is the quotient num / den, kept as the two terms
getSummary(t) ==
  [totalCostCents |-> t.totalCostCents,
   maxCostCents |-> t.maxCostCents,
   remainingBudgetCents |-> getRemainingBudgetCents(t),
   budgetUsedPercentage |-> [num |-> t.totalCostCents * 100, den |-> t.maxCostCents],
   totalQueries |-> Len(t.usageHistory),
   orchestratorQueries |-> CountSource(t.usageHistory, "orchestrator"),
   toolQueries |-> CountSource(t.usageHistory, "tool")]

(***************************************************************************)
(* The execution guard around a tool's provider call                       *)
(***************************************************************************)
ToolKinds == {"executeOpenAi", "executeAnthropic", "createExecutionFunction"}

\* the name a tool's usage records carry
ToolNameOf(kind) ==
  CASE kind = "executeOpenAi" -> "openai"
    [] kind = "executeAnthropic" -> "anthropic"
    [] kind = "createExecutionFunction" -> "openai"

\* the prefix a tool's catch block puts before the message it re-throws
ErrorPrefixOf(kind) ==
  CASE kind = "executeOpenAi" -> "OpenAI execution failed"
    [] kind = "executeAnthropic" -> "Anthropic execution failed"
    [] kind = "createExecutionFunction" -> "OpenAI execution failed"

Error(type, remaining) == [type |-> type, wrap |-> <<>>, remaining |-> remaining]

InsufficientBudget(t) == Error("Insufficient budget", Some(getRemainingBudgetCents(t)))

Wrap(prefix, e) == [e EXCEPT !.wrap = <<prefix>> \o @]

\* what a pass found out before the provider call: whether canAffordQuery
\* was asked, with which output estimate, what it answered, and either the
\* token limit for the provider or the error thrown
Prepared(asked, estimate, answer, out) ==
  [asked |-> asked, estimate |-> estimate, answer |-> answer, out |-> out]

\* executeOpenAi of tools/openai.ts: the whole body is inside try, the
\* affordability check passes no output estimate
\* a faulty variant: the answer of canAffordQuery is not acted on
PrepareOpenAi_Unchecked(t, model, promptLength, maxTokens) ==
  LET answer == canAffordQuery(t, model, promptLength, None).val
      prefix == ErrorPrefixOf("executeOpenAi")
  IN IF Truthy(maxTokens)
       THEN Prepared(TRUE, None, answer, Ok(maxTokens))
     ELSE IF getDefaultMaxTokens(t, model).ok
       THEN Prepared(TRUE, None, answer, Ok(Some(getDefaultMaxTokens(t, model).val)))
     ELSE Prepared(TRUE, None, answer,
                   Throw(Wrap(prefix, Error(getDefaultMaxTokens(t, model).err, None))))

PrepareOpenAi(t, model, promptLength, maxTokens) ==
  LET answer == canAffordQuery(t, model, promptLength, None).val
      prefix == ErrorPrefixOf("executeOpenAi")
  IN IF ~answer
       THEN Prepared(TRUE, None, answer, Throw(Wrap(prefix, InsufficientBudget(t))))
     ELSE IF Truthy(maxTokens)
       THEN Prepared(TRUE, None, answer, Ok(maxTokens))
     ELSE IF getDefaultMaxTokens(t, model).ok
       THEN Prepared(TRUE, None, answer, Ok(Some(getDefaultMaxTokens(t, model).val)))
     ELSE Prepared(TRUE, None, answer,
                   Throw(Wrap(prefix, Error(getDefaultMaxTokens(t, model).err, None))))

\* prepareExecution, and the same lines at the head of executeAnthropic: they
\* run before the try block
\* a faulty variant: the answer of canAffordQuery is not acted on
prepareExecution_Unchecked(t, model, promptLength, maxTokens) ==
  LET estimate == IF Truthy(maxTokens) THEN Ok(maxTokens[1]) ELSE getDefaultMaxTokens(t, model) IN
    IF ~estimate.ok
      THEN Prepared(FALSE, None, TRUE, Throw(Error(estimate.err, None)))
    ELSE Prepared(TRUE, Some(estimate.val),
                  canAffordQuery(t, model, promptLength, Some(estimate.val)).val,
                  Ok(Some(estimate.val)))

prepareExecution(t, model, promptLength, maxTokens) ==
  LET estimate == IF Truthy(maxTokens) THEN Ok(maxTokens[1]) ELSE getDefaultMaxTokens(t, model) IN
    IF ~estimate.ok
      THEN Prepared(FALSE, None, TRUE, Throw(Error(estimate.err, None)))
    ELSE IF ~canAffordQuery(t, model, promptLength, Some(estimate.val)).val
      THEN Prepared(TRUE, Some(estimate.val), FALSE, Throw(InsufficientBudget(t)))
    ELSE Prepared(TRUE, Some(estimate.val), TRUE, Ok(Some(estimate.val)))

Prepare(kind, t, tracked, model, promptLength, maxTokens) ==
  IF ~tracked THEN Prepared(FALSE, None, TRUE, Ok(maxTokens))
  ELSE IF kind = "executeOpenAi" THEN PrepareOpenAi(t, model, promptLength, maxTokens)
  ELSE prepareExecution(t, model, promptLength, maxTokens)

UsageRecord(model, usage, cost, source, toolName) ==
  [model |-> model, inputTokens |-> usage[1], outputTokens |-> usage[2],
   costCents |-> cost, source |-> source, toolName |-> toolName]

\* trackUsage, and the same lines in the tools: the tracker after the
\* response, or the error estimateCost threw.  usage is the response's
\* tokenUsage, None when the provider reported none.
\* a faulty variant: the new record replaces the history
trackUsage_Resets(t, tracked, model, source, toolName, usage) ==
  IF ~tracked \/ usage = None THEN Ok(t)
  ELSE IF ~estimateCost(t, model, usage[1][1], usage[1][2]).ok
    THEN Throw(Error(estimateCost(t, model, usage[1][1], usage[1][2]).err, None))
  ELSE Ok(addUsage(createCostTracker(t.impl, t.maxCostCents),
                   UsageRecord(model, usage[1],
                               estimateCost(t, model, usage[1][1], usage[1][2]).val,
                               source, toolName)))

trackUsage(t, tracked, model, source, toolName, usage) ==
  IF ~tracked \/ usage = None THEN Ok(t)
  ELSE IF ~estimateCost(t, model, usage[1][1], usage[1][2]).ok
    THEN Throw(Error(estimateCost(t, model, usage[1][1], usage[1][2]).err, None))
  ELSE Ok(addUsage(t, UsageRecord(model, usage[1],
                                  estimateCost(t, model, usage[1][1], usage[1][2]).val,
                                  source, toolName)))

\* the costTracker entry of a tool's result: tools/openai.ts always writes the
\* key, the other tools only spread it in when a tracker was given
SummaryField(kind, t, tracked) ==
  [present |-> tracked \/ kind = "executeOpenAi",
   value |-> IF tracked THEN Some(getSummary(t)) ELSE None]

createToolResponse(kind, t, tracked, model, usage) ==
  [success |-> TRUE, model |-> model, usage |-> usage,
   costTracker |-> SummaryField(kind, t, tracked)]

\* the part of a tool after its provider call resolved
ToolResolved(kind, t, tracked, model, usage) ==
  LET tracked_ == trackUsage(t, tracked, model, "tool", Some(ToolNameOf(kind)), usage) IN
    IF tracked_.ok
      THEN [tracker |-> tracked_.val,
            out |-> Ok(createToolResponse(kind, tracked_.val, tracked, model, usage))]
      ELSE [tracker |-> t, out |-> Throw(Wrap(ErrorPrefixOf(kind), tracked_.err))]

\* what a rejecting provider call throws: an Error with its message, or a
\* value that is no Error
ProviderError == [isError |-> TRUE, message |-> "provider"]
ThrownValues == {ProviderError, [isError |-> FALSE, message |-> "provider"]}

\* error instanceof Error ? error.message : "Unknown error"
MessageOf(thrown) == IF thrown.isError THEN thrown.message ELSE "Unknown error"

\* the catch block of a tool re-throws with the tool's prefix
\* a faulty variant: the error is thrown on without the prefix
handleToolError_Bare(kind, thrown) == Throw(Error(MessageOf(thrown), None))

handleToolError(kind, thrown) ==
  Throw(Wrap(ErrorPrefixOf(kind), Error(MessageOf(thrown), None)))

\* a faulty variant: the failed call is charged as if it had used no token
ToolRejected_Charged(kind, t, tracked, model, thrown) ==
  [tracker |-> IF tracked
                 THEN addUsage(t, UsageRecord(model, <<0, 0>>, 0, "tool", Some(ToolNameOf(kind))))
                 ELSE t,
   out |-> handleToolError(kind, thrown)]

\* the part of a tool after its provider call rejected
ToolRejected(kind, t, tracked, model, thrown) ==
  [tracker |-> t, out |-> handleToolError(kind, thrown)]

(***************************************************************************)
(* A guard pass, and the record of how it ended                            *)
(***************************************************************************)
\* what a claim about a pass compares: the tracker's total and history
Snapshot(t) == [totalCostCents |-> t.totalCostCents, usageHistory |-> t.usageHistory]

\* before is the tracker as the pass found it
Pass(kind, t, tracked, model, promptLength, maxTokens, p) ==
  [kind |-> kind, tracked |-> tracked, model |-> model, promptLength |-> promptLength,
   maxTokens |-> maxTokens, asked |-> p.asked, estimate |-> p.estimate, answer |-> p.answer,
   invoked |-> p.out.ok, limit |-> IF p.out.ok THEN p.out.val ELSE None,
   before |-> Snapshot(t)]

\* end is "rejected" (thrown before the provider call), "resolved" or
\* "failed" (the provider call rejected); after is the tracker as the pass
\* left it
Entry(pass, end, usage, out, t) ==
  [pass |-> pass, end |-> end, usage |-> usage, out |-> out, after |-> Snapshot(t)]

(***************************************************************************)
(* chat(): the orchestrator turn and the tool loop                         *)
(***************************************************************************)
\* "chat" is chat of src/ai.ts, "chatAdaptive" the revision that hands the
\* orchestrator a token limit and honours conservativeMode
ChatKinds == {"chat", "chatAdaptive"}

ChatPrefix == "AI chat failed"

\* whether chat creates a tracker: for any options object, or only for a
\* truthy options.maxCostCents
ChatTracked(kind, options) ==
  IF kind = "chat" THEN options # None
  ELSE options # None /\ options[1].maxCostCents # 0

\* the orchestrator's pre-execution check and token limit
PrepareChat(kind, t, tracked, model, promptLength, conservativeMode) ==
  IF ~tracked THEN Prepared(FALSE, None, TRUE, Ok(None))
  ELSE IF ~canAffordQuery(t, model, promptLength, None).val
    THEN Prepared(TRUE, None, FALSE, Throw(InsufficientBudget(t)))
  ELSE IF kind = "chat" THEN Prepared(TRUE, None, TRUE, Ok(None))
  ELSE IF ~getDefaultMaxTokens(t, model).ok
    THEN Prepared(TRUE, None, TRUE, Throw(Error(getDefaultMaxTokens(t, model).err, None)))
  ELSE IF conservativeMode
    THEN Prepared(TRUE, None, TRUE, Ok(Some(Min(getDefaultMaxTokens(t, model).val, 1024))))
  ELSE Prepared(TRUE, None, TRUE, Ok(Some(getDefaultMaxTokens(t, model).val)))

\* the tools of the collection chat is bound to
registry == [openai |-> "executeOpenAi", anthropic |-> "executeAnthropic"]

\* ToolCollection.execute hands the tracker on to the tool ("index"), or
\* calls tool.execute(parsedArgs) without it ("utils")
Collections == {"utils", "index"}

CollectionPrefix == "Tool execution failed"

\* The for loop over response.tool_calls from its current position up to the
\* next provider call: a call that fails before its provider call becomes an
\* error entry and the loop goes on.  The result is the calls still pending
\* (the first of them suspended in call), the entries so far and the passes
\* that ended.
RECURSIVE RunToolCalls(_, _, _, _, _, _)
RunToolCalls(t, tracked, collection, pending, results, log) ==
  IF pending = <<>>
    THEN [pending |-> pending, results |-> results, log |-> log, call |-> [pc |-> "idle"]]
  ELSE IF Head(pending).name \notin DOMAIN registry
    THEN RunToolCalls(t, tracked, collection, Tail(pending),
           Append(results, [toolCall |-> Head(pending),
                            out |-> Throw(Error("Tool not found in registry", None))]),
           log)
  ELSE LET tc == Head(pending)
           kind == registry[tc.name]
           passTracked == tracked /\ collection = "index"
           p == Prepare(kind, t, passTracked, tc.modelName, tc.promptLength, tc.maxTokens)
           pass == Pass(kind, t, passTracked, tc.modelName, tc.promptLength, tc.maxTokens, p)
       IN IF p.out.ok
            THEN [pending |-> pending, results |-> results, log |-> log,
                  call |-> [pc |-> "invoking", pass |-> pass]]
            ELSE RunToolCalls(t, tracked, collection, Tail(pending),
                   Append(results, [toolCall |-> tc,
                                    out |-> Throw(Wrap(CollectionPrefix, p.out.err))]),
                   Append(log, Entry(pass, "rejected", None, p.out, t)))

\* the costTracker entry of chat's result: src/ai.ts always writes the key
ChatSummaryField(kind, t, tracked) ==
  [present |-> tracked \/ kind = "chat",
   value |-> IF tracked THEN Some(getSummary(t)) ELSE None]

\* toolCalls is None when the orchestrator asked for no tool
ChatResult(kind, t, tracked, toolCalls) ==
  [response |-> "content", toolCalls |-> toolCalls,
   costTracker |-> ChatSummaryField(kind, t, tracked)]

(***************************************************************************)
(* Inputs                                                                  *)
(***************************************************************************)
Idle == [pc |-> "idle"]

\* chat is Off while the owner of the tracker calls the tools itself, and
\* NoChat between two exchanges of a caller that talks to chat()
Off == [pc |-> "off"]
NoChat == [pc |-> "idle"]

Impls == {"closure", "class"}

\* the chat() calls that may be in flight at once on one AI object
Slots == {1, 2}

\* a slot no chat() call has used yet
NoExchange ==
  [pc |-> "idle", kind |-> "chat", tracked |-> FALSE, ref |-> None, own |-> <<>>,
   pending |-> 0, errors |-> 0, result |-> None]

\* no batch of tool calls has been started
NoBatch == [mode |-> "none", passes |-> [s \in Slots |-> [pc |-> "idle"]]]

\* budget ceilings, in cents
Budgets == {0, 30, 100}

Models == {"gpt-4", "claude-3-5-sonnet-20240620", "unknown-model"}

\* records a caller hands to addUsage itself (costs in cents)
DirectCosts == {5, 20, 70}

DirectRecord(c, s) ==
  [model |-> "gpt-4", inputTokens |-> 100, outputTokens |-> 50, costCents |-> Cents(c),
   source |-> s, toolName |-> IF s = "tool" THEN Some("openai") ELSE None]

DirectRecords ==
  {DirectRecord(c, "tool") : c \in DirectCosts} \cup {DirectRecord(70, "orchestrator")}

\* <<inputTokens, outputTokens>>
TokenPairs == {<<0, 0>>, <<1, 0>>, <<0, 1>>, <<1000, 500>>, <<1001, 500>>}
PromptLengths == {0, 4000}
OutputEstimates == {None, Some(0), Some(500)}
KnownCosts == {0, 1, 30, 31}

\* inputs of a tool call
ToolModels == {"gpt-4", "unknown-model"}
ToolPromptLength == 4000
ExplicitMaxTokens == {None, Some(0), Some(500)}
\* tokenUsage of a provider response: <<promptTokens, completionTokens>>
Usages == {None, Some(<<1000, 500>>)}
\* what a caller has spent through a tracker before handing it to a tool
SeedRecords == {DirectRecord(70, "tool")}

\* inputs of chat
ChatModels == {"gpt-4", "unknown-model"}
\* options.maxCostCents, in cents
ChatBudgets == {0, 30}
ChatOptions ==
  {None} \cup
  {Some([maxCostCents |-> b, conservativeMode |-> c]) : b \in ChatBudgets, c \in BOOLEAN}
ToolCall(name) ==
  [name |-> name, modelName |-> "gpt-4", promptLength |-> ToolPromptLength, maxTokens |-> None]
RequestedTools == {"openai", "anthropic", "ghost"}
\* the arguments text of a tool call handed to ToolCollection.execute
JsonTexts == {"{}"}
ArgumentTexts == JsonTexts \cup {"invalid json {"}
ToolCallLists ==
  UNION {[1..n -> {ToolCall(name) : name \in RequestedTools}] : n \in 0..MaxToolCalls}

(***************************************************************************)
(* Tracker operations called by the owner of a tracker                     *)
(***************************************************************************)
\* a caller of chat() holds no tracker of its own: until chat creates one,
\* tracker only says which revision of the tracker chat is built with
Init ==
  /\ \E impl \in Impls, b \in Budgets : tracker = createCostTracker(impl, Cents(b))
  /\ chat \in {Off, NoChat}
  /\ chat = NoChat => tracker.maxCostCents = 0
  /\ call = Idle
  /\ done = <<>>
  /\ ret = [op |-> "none", args |-> <<>>, result |-> Ok(Undefined)]
  /\ heap = <<>>
  /\ exchanges = [s \in Slots |-> NoExchange]
  /\ inflight = NoBatch

AddUsage(record) ==
  /\ chat = Off
  /\ call = Idle
  /\ Len(tracker.usageHistory) < MaxHistory
  /\ tracker' = addUsage(tracker, record)
  /\ ret' = [op |-> "addUsage", args |-> <<record>>, result |-> Ok(Undefined)]
  /\ done' = <<>>
  /\ UNCHANGED <<chat, call, heap, exchanges, inflight>>

\* a faulty variant: a read that empties the history
Query_Clears(op, args, result) ==
  /\ chat = Off
  /\ call = Idle
  /\ ret' = [op |-> op, args |-> args, result |-> result]
  /\ tracker' = [tracker EXCEPT !.usageHistory = <<>>]
  /\ UNCHANGED <<chat, call, done, heap, exchanges, inflight>>

Query(op, args, result) ==
  /\ chat = Off
  /\ call = Idle
  /\ ret' = [op |-> op, args |-> args, result |-> result]
  /\ UNCHANGED <<tracker, chat, call, done, heap, exchanges, inflight>>

GetRemainingBudgetCents ==
  Query("getRemainingBudgetCents", <<>>, Ok(getRemainingBudgetCents(tracker)))

CanAfford(c) ==
  Query("canAfford", <<c>>, Ok(canAfford(tracker, c)))

EstimateCost(m, i, o) ==
  Query("estimateCost", <<m, i, o>>, estimateCost(tracker, m, i, o))

EstimateQueryCost(m, p, o) ==
  Query("estimateQueryCost", <<m, p, o>>, estimateQueryCost(tracker, m, p, o))

CanAffordQuery(m, p, o) ==
  Query("canAffordQuery", <<m, p, o>>, canAffordQuery(tracker, m, p, o))

GetDefaultMaxTokens(m) ==
  Query("getDefaultMaxTokens", <<m>>, getDefaultMaxTokens(tracker, m))

GetSummary ==
  Query("getSummary", <<>>, Ok(getSummary(tracker)))

NextTracker ==
  \/ \E r \in DirectRecords : AddUsage(r)
  \/ GetRemainingBudgetCents
  \/ \E c \in KnownCosts : CanAfford(Cents(c))
  \/ \E m \in Models, io \in TokenPairs : EstimateCost(m, io[1], io[2])
  \/ \E m \in Models, p \in PromptLengths, o \in OutputEstimates : EstimateQueryCost(m, p, o)
  \/ \E m \in Models \cup {""}, p \in PromptLengths, o \in OutputEstimates :
       CanAffordQuery(m, p, o)
  \/ \E m \in Models : GetDefaultMaxTokens(m)
  \/ GetSummary

InitTracker == Init /\ chat = Off

SpecTracker == InitTracker /\ [][NextTracker]_vars

(***************************************************************************)
(* Tool calls made by the owner of a tracker                               *)
(***************************************************************************)
\* tool.execute(params, costTracker) up to its provider call
ExecuteTool(kind, tracked, model, maxTokens) ==
  LET p == Prepare(kind, tracker, tracked, model, ToolPromptLength, maxTokens)
      pass == Pass(kind, tracker, tracked, model, ToolPromptLength, maxTokens, p)
  IN /\ chat = Off
     /\ call = Idle
     /\ Len(tracker.usageHistory) < MaxHistory
     /\ IF p.out.ok
          THEN /\ call' = [pc |-> "invoking", pass |-> pass, via |-> None]
               /\ done' = <<>>
               /\ ret' = [op |-> kind, args |-> <<>>, result |-> Ok(Pending)]
          ELSE /\ call' = Idle
               /\ done' = <<Entry(pass, "rejected", None, p.out, tracker)>>
               /\ ret' = [op |-> kind, args |-> <<>>, result |-> p.out]
     /\ UNCHANGED <<tracker, chat, heap, exchanges, inflight>>

\* the catch block of ToolCollection.execute, for a tool called through a
\* collection
ViaCollection(via, out) ==
  IF via = None \/ out.ok THEN out ELSE Throw(Wrap(CollectionPrefix, out.err))

\* the name under which the caller made the suspended call
CalledAs(c) == IF c.via = None THEN c.pass.kind ELSE "execute"

\* ToolCollection.execute(toolCall, costTracker) called by the owner of a
\* tracker, up to the provider call of the tool: the lookup in the registry
\* is outside the try block, JSON.parse and the tool inside it
\* a faulty variant: arguments that do not parse are handed to the tool
CollectionExecute_Unparsed(collection, name, arguments, tracked) ==
  /\ chat = Off
  /\ call = Idle
  /\ Len(tracker.usageHistory) < MaxHistory
  /\ IF name \notin DOMAIN registry
       THEN /\ call' = Idle
            /\ done' = <<>>
            /\ ret' = [op |-> "execute", args |-> <<name, arguments>>,
                       result |-> Throw(Error("Tool not found in registry", None))]
       ELSE LET kind == registry[name]
                passTracked == tracked /\ collection = "index"
                p == Prepare(kind, tracker, passTracked, "gpt-4", ToolPromptLength, None)
                pass == Pass(kind, tracker, passTracked, "gpt-4", ToolPromptLength, None, p)
            IN IF p.out.ok
                 THEN /\ call' = [pc |-> "invoking", pass |-> pass, via |-> Some(collection)]
                      /\ done' = <<>>
                      /\ ret' = [op |-> "execute", args |-> <<name, arguments>>,
                                 result |-> Ok(Pending)]
                 ELSE /\ call' = Idle
                      /\ done' = <<Entry(pass, "rejected", None, p.out, tracker)>>
                      /\ ret' = [op |-> "execute", args |-> <<name, arguments>>,
                                 result |-> ViaCollection(Some(collection), p.out)]
  /\ UNCHANGED <<tracker, chat, heap, exchanges, inflight>>

CollectionExecute(collection, name, arguments, tracked) ==
  /\ chat = Off
  /\ call = Idle
  /\ Len(tracker.usageHistory) < MaxHistory
  /\ IF name \notin DOMAIN registry
       THEN /\ call' = Idle
            /\ done' = <<>>
            /\ ret' = [op |-> "execute", args |-> <<name, arguments>>,
                       result |-> Throw(Error("Tool not found in registry", None))]
     ELSE IF arguments \notin JsonTexts
       THEN /\ call' = Idle
            /\ done' = <<>>
            /\ ret' = [op |-> "execute", args |-> <<name, arguments>>,
                       result |-> Throw(Wrap(CollectionPrefix, Error("SyntaxError", None)))]
       ELSE LET kind == registry[name]
                passTracked == tracked /\ collection = "index"
                p == Prepare(kind, tracker, passTracked, "gpt-4", ToolPromptLength, None)
                pass == Pass(kind, tracker, passTracked, "gpt-4", ToolPromptLength, None, p)
            IN IF p.out.ok
                 THEN /\ call' = [pc |-> "invoking", pass |-> pass, via |-> Some(collection)]
                      /\ done' = <<>>
                      /\ ret' = [op |-> "execute", args |-> <<name, arguments>>,
                                 result |-> Ok(Pending)]
                 ELSE /\ call' = Idle
                      /\ done' = <<Entry(pass, "rejected", None, p.out, tracker)>>
                      /\ ret' = [op |-> "execute", args |-> <<name, arguments>>,
                                 result |-> ViaCollection(Some(collection), p.out)]
  /\ UNCHANGED <<tracker, chat, heap, exchanges, inflight>>

\* the provider call of the suspended tool resolves with a response
ToolResolves(usage) ==
  /\ chat = Off
  /\ call.pc = "invoking"
  /\ LET pass == call.pass
         r == ToolResolved(pass.kind, tracker, pass.tracked, pass.model, usage)
     IN /\ tracker' = r.tracker
        /\ done' = <<Entry(pass, "resolved", usage, r.out, r.tracker)>>
        /\ ret' = [op |-> CalledAs(call), args |-> <<>>, result |-> ViaCollection(call.via, r.out)]
  /\ call' = Idle
  /\ UNCHANGED <<chat, heap, exchanges, inflight>>

\* the provider call of the suspended tool rejects
ToolRejects(thrown) ==
  /\ chat = Off
  /\ call.pc = "invoking"
  /\ LET pass == call.pass
         r == ToolRejected(pass.kind, tracker, pass.tracked, pass.model, thrown)
     IN /\ tracker' = r.tracker
        /\ done' = <<Entry(pass, "failed", None, r.out, r.tracker)>>
        /\ ret' = [op |-> CalledAs(call), args |-> <<>>, result |-> ViaCollection(call.via, r.out)]
  /\ call' = Idle
  /\ UNCHANGED <<chat, heap, exchanges, inflight>>

(***************************************************************************)
(* chat()                                                                  *)
(***************************************************************************)
\* a faulty variant: the error leaves chat as it came
ChatThrows_Unprefixed(e) == [op |-> "chat", args |-> <<>>, result |-> Throw(e)]

\* what chat's catch block throws
ChatThrows(e) == [op |-> "chat", args |-> <<>>, result |-> Throw(Wrap(ChatPrefix, e))]

\* chat(message, options) up to the orchestrator's provider call
ChatStart(kind, collection, model, options) ==
  LET tracked == ChatTracked(kind, options)
      t == IF tracked THEN createCostTracker(tracker.impl, Cents(options[1].maxCostCents))
           ELSE tracker
      conservativeMode == options # None /\ options[1].conservativeMode
      p == PrepareChat(kind, t, tracked, model, ToolPromptLength, conservativeMode)
      pass == Pass(kind, t, tracked, model, ToolPromptLength, None, p)
  IN /\ chat = NoChat
     /\ call = Idle
     /\ tracker' = t
     /\ IF p.out.ok
          THEN /\ chat' = [pc |-> "orchestrator", kind |-> kind, collection |-> collection,
                           tracked |-> tracked, requested |-> <<>>, pending |-> <<>>,
                           results |-> <<>>]
               /\ call' = [pc |-> "invoking", pass |-> pass]
               /\ done' = <<>>
               /\ ret' = [op |-> "chat", args |-> <<>>, result |-> Ok(Pending)]
          ELSE /\ chat' = NoChat
               /\ call' = Idle
               /\ done' = <<Entry(pass, "rejected", None, p.out, t)>>
               /\ ret' = ChatThrows(p.out.err)
     /\ UNCHANGED <<heap, exchanges, inflight>>

\* the state after the tool loop ran from pending up to its next provider
\* call, or to the end of chat
ChatContinues(t, requested, pending, results, log) ==
  LET r == RunToolCalls(t, chat.tracked, chat.collection, pending, results, log) IN
    /\ tracker' = t
    /\ done' = r.log
    /\ call' = r.call
    /\ UNCHANGED <<heap, exchanges, inflight>>
    /\ IF r.call.pc = "invoking"
         THEN /\ chat' = [chat EXCEPT !.pc = "tool", !.requested = requested,
                                      !.pending = r.pending, !.results = r.results]
              /\ ret' = [op |-> "chat", args |-> <<>>, result |-> Ok(Pending)]
         ELSE /\ chat' = NoChat
              /\ ret' = [op |-> "chat", args |-> <<requested>>,
                         result |-> Ok(ChatResult(chat.kind, t, chat.tracked,
                                                  IF requested = <<>> THEN None
                                                  ELSE Some(r.results)))]

\* the orchestrator's provider call resolves with a response
\* a faulty variant: the orchestrator's usage is recorded as a tool's
OrchestratorResolves_AsTool(usage, toolCalls) ==
  /\ chat.pc = "orchestrator"
  /\ LET pass == call.pass
         t == trackUsage(tracker, pass.tracked, pass.model, "tool", Some("openai"), usage)
     IN IF t.ok
          THEN ChatContinues(t.val, toolCalls, toolCalls, <<>>,
                             <<Entry(pass, "resolved", usage, Ok(Response), t.val)>>)
          ELSE /\ chat' = NoChat
               /\ call' = Idle
               /\ done' = <<Entry(pass, "resolved", usage, Throw(t.err), tracker)>>
               /\ ret' = ChatThrows(t.err)
               /\ UNCHANGED <<tracker, heap, exchanges, inflight>>

OrchestratorResolves(usage, toolCalls) ==
  /\ chat.pc = "orchestrator"
  /\ LET pass == call.pass
         t == trackUsage(tracker, pass.tracked, pass.model, "orchestrator", None, usage)
     IN IF t.ok
          THEN ChatContinues(t.val, toolCalls, toolCalls, <<>>,
                             <<Entry(pass, "resolved", usage, Ok(Response), t.val)>>)
          ELSE /\ chat' = NoChat
               /\ call' = Idle
               /\ done' = <<Entry(pass, "resolved", usage, Throw(t.err), tracker)>>
               /\ ret' = ChatThrows(t.err)
               /\ UNCHANGED <<tracker, heap, exchanges, inflight>>

\* the orchestrator's provider call rejects
\* a faulty variant: chat makes the call again
OrchestratorRejects_Retries(thrown) ==
  /\ chat.pc = "orchestrator"
  /\ done' = <<Entry(call.pass, "failed", None, Throw(Error(MessageOf(thrown), None)),
                     tracker)>>
  /\ ret' = [op |-> "chat", args |-> <<>>, result |-> Ok(Pending)]
  /\ UNCHANGED <<tracker, chat, call, heap, exchanges, inflight>>

OrchestratorRejects(thrown) ==
  /\ chat.pc = "orchestrator"
  /\ chat' = NoChat
  /\ call' = Idle
  /\ done' = <<Entry(call.pass, "failed", None, Throw(Error(MessageOf(thrown), None)),
                     tracker)>>
  /\ ret' = ChatThrows(Error(MessageOf(thrown), None))
  /\ UNCHANGED <<tracker, heap, exchanges, inflight>>

\* a faulty variant: the entry of the completed call is put before the
\* earlier ones
ChatToolResolves_Prepends(usage) ==
  /\ chat.pc = "tool"
  /\ LET pass == call.pass
         r == ToolResolved(pass.kind, tracker, pass.tracked, pass.model, usage)
         out == IF r.out.ok THEN r.out ELSE Throw(Wrap(CollectionPrefix, r.out.err))
     IN ChatContinues(r.tracker, chat.requested, Tail(chat.pending),
                      <<[toolCall |-> Head(chat.pending), out |-> out]>> \o chat.results,
                      <<Entry(pass, "resolved", usage, r.out, r.tracker)>>)

\* the provider call of the tool the loop is waiting for resolves
ChatToolResolves(usage) ==
  /\ chat.pc = "tool"
  /\ LET pass == call.pass
         r == ToolResolved(pass.kind, tracker, pass.tracked, pass.model, usage)
         out == IF r.out.ok THEN r.out ELSE Throw(Wrap(CollectionPrefix, r.out.err))
     IN ChatContinues(r.tracker, chat.requested, Tail(chat.pending),
                      Append(chat.results, [toolCall |-> Head(chat.pending), out |-> out]),
                      <<Entry(pass, "resolved", usage, r.out, r.tracker)>>)

\* a faulty variant: the failure of a tool call ends the exchange
ChatToolRejects_Aborts(thrown) ==
  /\ chat.pc = "tool"
  /\ LET pass == call.pass
         r == ToolRejected(pass.kind, tracker, pass.tracked, pass.model, thrown)
     IN /\ tracker' = r.tracker
        /\ done' = <<Entry(pass, "failed", None, r.out, r.tracker)>>
        /\ ret' = ChatThrows(Wrap(CollectionPrefix, r.out.err))
  /\ chat' = NoChat
  /\ call' = Idle
  /\ UNCHANGED <<heap, exchanges, inflight>>

\* the provider call of the tool the loop is waiting for rejects
ChatToolRejects(thrown) ==
  /\ chat.pc = "tool"
  /\ LET pass == call.pass
         r == ToolRejected(pass.kind, tracker, pass.tracked, pass.model, thrown)
     IN ChatContinues(r.tracker, chat.requested, Tail(chat.pending),
                      Append(chat.results,
                             [toolCall |-> Head(chat.pending),
                              out |-> Throw(Wrap(CollectionPrefix, r.out.err))]),
                      <<Entry(pass, "failed", None, r.out, r.tracker)>>)

Next ==
  \/ \E r \in SeedRecords : AddUsage(r)
  \/ \E k \in ToolKinds, tr \in BOOLEAN, m \in ToolModels, mt \in ExplicitMaxTokens :
       ExecuteTool(k, tr, m, mt)
  \/ \E u \in Usages : ToolResolves(u)
  \/ \E thrown \in ThrownValues : ToolRejects(thrown)
  \/ \E k \in ChatKinds, c \in Collections, m \in ChatModels, o \in ChatOptions :
       ChatStart(k, c, m, o)
  \/ \E u \in Usages, tcs \in ToolCallLists : OrchestratorResolves(u, tcs)
  \/ \E thrown \in ThrownValues : OrchestratorRejects(thrown)
  \/ \E u \in Usages : ChatToolResolves(u)
  \/ \E thrown \in ThrownValues : ChatToolRejects(thrown)

Spec == Init /\ [][Next]_vars

\* a caller runs the tools of a collection by name, one call at a time
NextCollection ==
  \/ \E r \in SeedRecords : AddUsage(r)
  \/ \E c \in Collections, n \in RequestedTools, a \in ArgumentTexts, tr \in BOOLEAN :
       CollectionExecute(c, n, a, tr)
  \/ \E u \in Usages : ToolResolves(u)
  \/ \E thrown \in ThrownValues : ToolRejects(thrown)

InitCollection == Init /\ chat = Off

SpecCollection == InitCollection /\ [][NextCollection]_vars

(***************************************************************************)
(* Properties of the tracker                                               *)
(***************************************************************************)
Overspent == tracker.totalCostCents > tracker.maxCostCents

\* C1: in every reachable state the total getSummary reports equals the sum
\* of costCents over the records in usageHistory.
C1_TotalIsSumOfHistory ==
  getSummary(tracker).totalCostCents = SumCost(tracker.usageHistory)

C1_Witness ==
  /\ Len(tracker.usageHistory) >= 2
  /\ getSummary(tracker).totalCostCents > 0
  /\ ret.op = "addUsage"

\* C2: getRemainingBudgetCents() is maxCostCents - totalCostCents while that
\* is not negative and 0 once the total has passed the ceiling; it is never
\* negative.
C2_RemainingNeverNegative ==
  /\ getRemainingBudgetCents(tracker) >= 0
  /\ ~Overspent => getRemainingBudgetCents(tracker) = tracker.maxCostCents - tracker.totalCostCents
  /\ Overspent => getRemainingBudgetCents(tracker) = 0
  /\ ret.op = "getRemainingBudgetCents" =>
        ret.result.ok /\ ret.result.val = getRemainingBudgetCents(tracker)
  /\ getSummary(tracker).remainingBudgetCents = getRemainingBudgetCents(tracker)

C2_Witness ==
  /\ Overspent
  /\ tracker.maxCostCents > 0
  /\ ret.op = "getRemainingBudgetCents"
  /\ ret.result.val = 0

\* C6: canAfford(c) is true exactly when c <= getRemainingBudgetCents(), in
\* every tracker state; the boundary c = remaining is affordable.
C6_CanAffordInclusive ==
  /\ ret.op = "canAfford" =>
        /\ ret.result.ok
        /\ ret.result.val <=> (ret.args[1] <= getRemainingBudgetCents(tracker))
  /\ canAfford(tracker, getRemainingBudgetCents(tracker))

C6_Witness ==
  /\ ret.op = "canAfford"
  /\ ret.args[1] = getRemainingBudgetCents(tracker)
  /\ ret.args[1] > 0
  /\ tracker.usageHistory # <<>>
  /\ ret.result.val

\* C7: canAffordQuery never throws: it returns a boolean, true whenever
\* estimateQueryCost fails and otherwise canAfford of the estimate.
C7_CanAffordQueryNeverThrows ==
  ret.op = "canAffordQuery" =>
    LET e == estimateQueryCost(tracker, ret.args[1], ret.args[2], ret.args[3]) IN
      /\ ret.result.ok
      /\ ret.result.val \in BOOLEAN
      /\ ~e.ok => ret.result.val = TRUE
      /\ e.ok => (ret.result.val <=> canAfford(tracker, e.val))

C7_Witness ==
  /\ ret.op = "canAffordQuery"
  /\ ret.args[1] = ""
  /\ ret.args[2] = 0
  /\ ret.args[3] = None
  /\ ~estimateQueryCost(tracker, ret.args[1], ret.args[2], ret.args[3]).ok
  /\ ret.result.val = TRUE

\* C8: for a model with a pricing entry, estimateCost returns a whole number
\* of cents c with exact <= c < exact + 1, where exact is the cost of the
\* token counts at the entry's prices (1000 and 500 tokens of gpt-4 give 6).
C8_CostRoundedUpToWholeCent ==
  ret.op = "estimateCost" /\ HasPricing(ret.args[1]) =>
    LET exact == RawCost(modelPricing[ret.args[1]], ret.args[2], ret.args[3]) IN
      /\ ret.result.ok
      /\ ret.result.val % UnitsPerCent = 0
      /\ exact <= ret.result.val
      /\ ret.result.val < exact + UnitsPerCent
      /\ ret.args = <<"gpt-4", 1000, 500>> => ret.result.val = Cents(6)

\* C9: with maxCostCents > 0 and a model with a pricing entry,
\* getDefaultMaxTokens is min(maxOutputTokens, 512) while at most 10% of the
\* budget remains, min(maxOutputTokens, 2048) while at most 30% remains, and
\* maxOutputTokens otherwise.
C9_AdaptiveDefaultMaxTokens ==
  ret.op = "getDefaultMaxTokens" /\ HasPricing(ret.args[1]) /\ tracker.maxCostCents > 0 =>
    LET maxOut == modelPricing[ret.args[1]].max_output_tokens
        remaining == getRemainingBudgetCents(tracker)
    IN /\ ret.result.ok
       /\ ret.result.val =
            IF 10 * remaining <= tracker.maxCostCents THEN Min(maxOut, 512)
            ELSE IF 10 * remaining <= 3 * tracker.maxCostCents THEN Min(maxOut, 2048)
            ELSE maxOut

(***************************************************************************)
(* Properties of the execution guard                                       *)
(***************************************************************************)
\* the pass asked canAffordQuery and was answered false
RejectedByBudget(pass) == pass.tracked /\ pass.asked /\ ~pass.answer

\* getRemainingBudgetCents() of the tracker when its total was as in snapshot
RemainingAt(snapshot) ==
  getRemainingBudgetCents([tracker EXCEPT !.totalCostCents = snapshot.totalCostCents])

SourceOf(kind) == IF kind \in ChatKinds THEN "orchestrator" ELSE "tool"

\* the snapshot of the last pass a step ended is the tracker the step left
LogIsOfTracker == done # <<>> => done[Len(done)].after = Snapshot(tracker)

\* C3: a tracked tool call or orchestrator turn whose canAffordQuery answers
\* false throws "Insufficient budget" with the tracker's remaining budget of
\* that moment, its provider is not invoked, and the tracker's total and
\* history are as before.
C3_RejectionLeavesTrackerAlone ==
  /\ LogIsOfTracker
  /\ call.pc = "invoking" => ~RejectedByBudget(call.pass)
  /\ \A i \in DOMAIN done :
       RejectedByBudget(done[i].pass) =>
         /\ done[i].end = "rejected"
         /\ ~done[i].pass.invoked
         /\ ~done[i].out.ok
         /\ done[i].out.err.type = "Insufficient budget"
         /\ done[i].out.err.remaining = Some(RemainingAt(done[i].after))
         /\ done[i].after = done[i].pass.before

\* a chat whose tool call is refused after the orchestrator turn was charged
C3_Witness ==
  /\ Len(done) = 2
  /\ done[1].end = "resolved"
  /\ done[1].pass.kind \in ChatKinds
  /\ done[2].pass.kind \in ToolKinds
  /\ RejectedByBudget(done[2].pass)
  /\ done[2].end = "rejected"
  /\ done[2].after.usageHistory # <<>>
  /\ done[2].out.err.remaining[1] > 0

\* C4: a tracked call that passed the pre-execution check and whose provider
\* invocation then failed adds no record: total and history after the call
\* are those before it.
C4_FailedCallNotRecorded ==
  /\ LogIsOfTracker
  /\ \A i \in DOMAIN done :
       done[i].pass.tracked /\ done[i].end = "failed" =>
         /\ done[i].pass.invoked
         /\ ~done[i].out.ok
         /\ done[i].after = done[i].pass.before

C4_Witness ==
  \E i \in DOMAIN done :
    /\ done[i].pass.tracked
    /\ done[i].pass.asked
    /\ done[i].pass.kind \in ToolKinds
    /\ done[i].end = "failed"
    /\ done[i].pass.before.usageHistory # <<>>
    /\ Snapshot(tracker) = done[i].pass.before

\* C5: a tracked call whose provider invocation succeeded appends exactly one
\* record when the response reports usage (the call's model, the reported
\* token counts, costCents = estimateCost of them, source "tool" with the
\* tool's name or "orchestrator" without one), and appends nothing and raises
\* no error when the response reports none.
C5_SuccessRecordedOnce ==
  \A i \in DOMAIN done :
    done[i].pass.tracked /\ done[i].end = "resolved" =>
      LET pass == done[i].pass
          usage == done[i].usage
      IN IF usage # None
           THEN LET cost == estimateCost(tracker, pass.model, usage[1][1], usage[1][2]) IN
                  /\ cost.ok
                  /\ done[i].out.ok
                  /\ done[i].after.usageHistory =
                       Append(pass.before.usageHistory,
                              UsageRecord(pass.model, usage[1], cost.val, SourceOf(pass.kind),
                                          IF pass.kind \in ChatKinds THEN None
                                          ELSE Some(ToolNameOf(pass.kind))))
                  /\ done[i].after.totalCostCents = pass.before.totalCostCents + cost.val
           ELSE /\ done[i].out.ok
                /\ done[i].after = pass.before

\* C10: a tracked tool call given an explicit maxTokens hands exactly that
\* value to the provider, whatever the budget; getDefaultMaxTokens(model) is
\* the limit exactly when no explicit value was given.
C10_ExplicitMaxTokensWins ==
  call.pc = "invoking" /\ call.pass.tracked /\ call.pass.kind \in ToolKinds =>
    IF call.pass.maxTokens # None
      THEN call.pass.limit = call.pass.maxTokens
      ELSE /\ getDefaultMaxTokens(tracker, call.pass.model).ok
           /\ call.pass.limit = Some(getDefaultMaxTokens(tracker, call.pass.model).val)

\* the step returned the result of a chat exchange that ran to its end
ChatReturned == chat = NoChat /\ ret.op = "chat" /\ ret.result.ok /\ ret.args # <<>>

\* C11: a guarded call without a tracker makes no affordability check, hands
\* the explicit maxTokens to the provider as given (none when none was given),
\* records no usage, and returns a result that has no costTracker key.
C11_UntrackedPassthrough ==
  /\ \A i \in DOMAIN done :
       ~done[i].pass.tracked =>
         /\ ~done[i].pass.asked
         /\ done[i].pass.invoked
         /\ done[i].pass.limit = done[i].pass.maxTokens
         /\ done[i].after = done[i].pass.before
         /\ done[i].end = "resolved" /\ done[i].pass.kind \in ToolKinds =>
              /\ done[i].out.ok
              /\ ~done[i].out.val.costTracker.present
  /\ ChatReturned /\ ret.result.val.costTracker.value = None =>
       ~ret.result.val.costTracker.present

\* the tool calls a list of {toolCall, result | error} entries is about
CallsOf(results) == [i \in DOMAIN results |-> results[i].toolCall]

\* C12: the tool calls of one exchange run one at a time in the order the
\* orchestrator returned them; the pass of a call starts from the tracker the
\* earlier calls left, and the returned toolCalls has one entry per requested
\* call, in the same order.
C12_ToolCallsInOrder ==
  /\ chat.pc = "tool" =>
       /\ call.pc = "invoking"
       /\ CallsOf(chat.results) \o chat.pending = chat.requested
       /\ call.pass.kind = registry[Head(chat.pending).name]
       /\ call.pass.before = Snapshot(tracker)
  /\ \A i \in DOMAIN done : i > 1 => done[i].pass.before = done[i - 1].after
  /\ ChatReturned =>
       IF ret.result.val.toolCalls = None THEN ret.args[1] = <<>>
       ELSE CallsOf(ret.result.val.toolCalls[1]) = ret.args[1]

C12_Witness ==
  /\ ChatReturned
  /\ Len(ret.args[1]) = 2
  /\ ret.args[1][1].name # ret.args[1][2].name
  /\ \A i \in 1..2 : ret.result.val.toolCalls[1][i].out.ok
  /\ Len(done) = 1
  /\ done[1].pass.tracked
  /\ done[1].pass.before.usageHistory # <<>>
  /\ Len(tracker.usageHistory) = Len(done[1].pass.before.usageHistory) + 1

\* the tool passes the last step ended with an error
FailedToolPasses == {i \in DOMAIN done : done[i].pass.kind \in ToolKinds /\ ~done[i].out.ok}

ErrorEntries(results) == {i \in DOMAIN results : ~results[i].out.ok}

\* C13: inside an exchange a tool call that fails, for whatever reason,
\* becomes an error entry for that call alone: the loop goes on to the calls
\* after it, and chat returns the orchestrator's response with one entry per
\* requested call instead of rejecting.
C13_ToolFailureIsLocal ==
  /\ chat.pc \in {"tool", "idle"} /\ FailedToolPasses # {} =>
       /\ ret.op = "chat"
       /\ ret.result.ok
       /\ chat.pc = "tool" =>
            /\ call.pc = "invoking"
            /\ Len(chat.results) + Len(chat.pending) = Len(chat.requested)
            /\ Cardinality(ErrorEntries(chat.results)) >= Cardinality(FailedToolPasses)
       /\ chat.pc = "idle" =>
            /\ ChatReturned
            /\ ret.result.val.response = "content"
            /\ Len(ret.result.val.toolCalls[1]) = Len(ret.args[1])
            /\ Cardinality(ErrorEntries(ret.result.val.toolCalls[1])) >=
                 Cardinality(FailedToolPasses)
  /\ ChatReturned /\ ret.result.val.toolCalls # None =>
       \A i \in DOMAIN ret.args[1] :
         ret.args[1][i].name \notin DOMAIN registry =>
           /\ ~ret.result.val.toolCalls[1][i].out.ok
           /\ ret.result.val.toolCalls[1][i].out.err.type = "Tool not found in registry"

C13_Witness ==
  /\ ChatReturned
  /\ Len(ret.args[1]) = 2
  /\ ~ret.result.val.toolCalls[1][1].out.ok
  /\ ret.result.val.toolCalls[1][1].out.err.type = "provider"
  /\ ret.result.val.toolCalls[1][2].out.ok
  /\ ret.result.val.response = "content"

\* the last step ended the orchestrator's own turn before or at its provider
\* call
OrchestratorFailed ==
  /\ done # <<>>
  /\ done[1].pass.kind \in ChatKinds
  /\ done[1].end \in {"rejected", "failed"}

\* C14: when the orchestrator's turn is rejected by its pre-execution check
\* or its provider call fails, chat rejects with the prefix "AI chat failed",
\* no tool call runs and no result is returned; a rejected turn never invoked
\* the provider.
C14_OrchestratorFailureAborts ==
  OrchestratorFailed =>
    /\ Len(done) = 1
    /\ chat = NoChat
    /\ call = Idle
    /\ ret.op = "chat"
    /\ ~ret.result.ok
    /\ ret.result.err.wrap # <<>>
    /\ Head(ret.result.err.wrap) = ChatPrefix
    /\ done[1].end = "rejected" => ~done[1].pass.invoked
    /\ done[1].end = "failed" => done[1].pass.invoked
    /\ Snapshot(tracker) = done[1].pass.before

C14_Witness ==
  /\ OrchestratorFailed
  /\ done[1].end = "rejected"
  /\ RejectedByBudget(done[1].pass)
  /\ ret.result.err.type = "Insufficient budget"
  /\ ret.result.err.wrap = <<ChatPrefix>>

(***************************************************************************)
(* Several chat() calls in flight on one AI object.  Each call holds its   *)
(* tracker by reference: heap is the objects createCostTracker returned,   *)
(* an exchange's ref the one its closure captured.  own is the records the *)
(* exchange itself handed to addUsage.                                     *)
(***************************************************************************)
\* a faulty variant: one tracker per AI object, created by the first call
NewTracker_Shared(h, impl, maxCostCents) ==
  IF h = <<>> THEN [heap |-> <<createCostTracker(impl, maxCostCents)>>, ref |-> 1]
  ELSE [heap |-> h, ref |-> 1]

\* `createCostTracker(options.maxCostCents)` inside chat: a new object
NewTracker(h, impl, maxCostCents) ==
  [heap |-> Append(h, createCostTracker(impl, maxCostCents)), ref |-> Len(h) + 1]

\* the model the AI object was built on, and the tool its model asks for
ExchangeModel == "gpt-4"
ExchangeTool == registry["anthropic"]
ExchangeToolCalls == {0, 1}
ExchangeOptions ==
  {None} \cup {Some([maxCostCents |-> b, conservativeMode |-> FALSE]) : b \in {30, 100}}

\* the tracker of an exchange; an exchange without one never reads it
TrackerOf(x) == IF x.ref = None THEN tracker ELSE heap[x.ref[1]]

\* the heap after the exchange's tracker became t
HeapWith(x, t) == IF x.ref = None THEN heap ELSE [heap EXCEPT ![x.ref[1]] = t]

\* the records added between two states of a tracker
Recorded(before, after) ==
  SubSeq(after.usageHistory, Len(before.usageHistory) + 1, Len(after.usageHistory))

ExchangeThrows(x, e) ==
  [x EXCEPT !.pc = "returned", !.result = Some(Throw(Wrap(ChatPrefix, e)))]

\* the exchange goes on to its next tool call, or returns
ExchangeGoesOn(x, t) ==
  IF x.pending = 0
    THEN [x EXCEPT !.pc = "returned",
                   !.result = Some(Ok(ChatSummaryField(x.kind, t, x.tracked)))]
    ELSE [x EXCEPT !.pc = "tools"]

ExchangeStart(s, kind, options) ==
  LET tracked == ChatTracked(kind, options)
      new == IF tracked THEN NewTracker(heap, tracker.impl, Cents(options[1].maxCostCents))
             ELSE [heap |-> heap, ref |-> 0]
      t == IF tracked THEN new.heap[new.ref] ELSE tracker
      p == PrepareChat(kind, t, tracked, ExchangeModel, ToolPromptLength,
                       options # None /\ options[1].conservativeMode)
      x == [pc |-> "orchestrator", kind |-> kind, tracked |-> tracked,
            ref |-> IF tracked THEN Some(new.ref) ELSE None, own |-> <<>>, pending |-> 0,
            errors |-> 0, result |-> None]
  IN /\ exchanges[s].pc \in {"idle", "returned"}
     /\ tracked => Len(heap) < MaxTrackers
     /\ heap' = new.heap
     /\ exchanges' = [exchanges EXCEPT ![s] = IF p.out.ok THEN x ELSE ExchangeThrows(x, p.out.err)]
     /\ UNCHANGED <<tracker, chat, call, done, ret, inflight>>

ExchangeOrchestratorResolves(s, usage, n) ==
  LET x == exchanges[s]
      t == TrackerOf(x)
      r == trackUsage(t, x.tracked, ExchangeModel, "orchestrator", None, usage)
  IN /\ x.pc = "orchestrator"
     /\ IF r.ok
          THEN /\ heap' = HeapWith(x, r.val)
               /\ exchanges' =
                    [exchanges EXCEPT ![s] =
                       ExchangeGoesOn([x EXCEPT !.own = @ \o Recorded(t, r.val), !.pending = n],
                                      r.val)]
          ELSE /\ heap' = heap
               /\ exchanges' = [exchanges EXCEPT ![s] = ExchangeThrows(x, r.err)]
     /\ UNCHANGED <<tracker, chat, call, done, ret, inflight>>

ExchangeOrchestratorRejects(s) ==
  /\ exchanges[s].pc = "orchestrator"
  /\ exchanges' = [exchanges EXCEPT ![s] = ExchangeThrows(@, Error(MessageOf(ProviderError), None))]
  /\ UNCHANGED <<tracker, chat, call, done, ret, heap, inflight>>

\* the loop reaches its next tool call: the guard up to the provider call
ExchangeToolStarts(s) ==
  LET x == exchanges[s]
      t == TrackerOf(x)
      p == Prepare(ExchangeTool, t, x.tracked, ExchangeModel, ToolPromptLength, None)
  IN /\ x.pc = "tools"
     /\ exchanges' =
          [exchanges EXCEPT ![s] =
             IF p.out.ok THEN [x EXCEPT !.pc = "invoking"]
             ELSE ExchangeGoesOn([x EXCEPT !.pending = @ - 1, !.errors = @ + 1], t)]
     /\ UNCHANGED <<tracker, chat, call, done, ret, heap, inflight>>

ExchangeToolResolves(s, usage) ==
  LET x == exchanges[s]
      t == TrackerOf(x)
      r == ToolResolved(ExchangeTool, t, x.tracked, ExchangeModel, usage)
  IN /\ x.pc = "invoking"
     /\ heap' = HeapWith(x, r.tracker)
     /\ exchanges' =
          [exchanges EXCEPT ![s] =
             ExchangeGoesOn([x EXCEPT !.own = @ \o Recorded(t, r.tracker), !.pending = @ - 1],
                            r.tracker)]
     /\ UNCHANGED <<tracker, chat, call, done, ret, inflight>>

ExchangeToolRejects(s) ==
  LET x == exchanges[s]
      t == TrackerOf(x)
      r == ToolRejected(ExchangeTool, t, x.tracked, ExchangeModel, ProviderError)
  IN /\ x.pc = "invoking"
     /\ heap' = HeapWith(x, r.tracker)
     /\ exchanges' =
          [exchanges EXCEPT ![s] =
             ExchangeGoesOn([x EXCEPT !.own = @ \o Recorded(t, r.tracker), !.pending = @ - 1,
                                      !.errors = @ + 1],
                            r.tracker)]
     /\ UNCHANGED <<tracker, chat, call, done, ret, inflight>>

NextExchanges ==
  \/ \E s \in Slots, k \in ChatKinds, o \in ExchangeOptions : ExchangeStart(s, k, o)
  \/ \E s \in Slots, u \in Usages, n \in ExchangeToolCalls : ExchangeOrchestratorResolves(s, u, n)
  \/ \E s \in Slots : ExchangeOrchestratorRejects(s)
  \/ \E s \in Slots : ExchangeToolStarts(s)
  \/ \E s \in Slots, u \in Usages : ExchangeToolResolves(s, u)
  \/ \E s \in Slots : ExchangeToolRejects(s)

InitExchanges == Init /\ chat = NoChat

SpecExchanges == InitExchanges /\ [][NextExchanges]_vars

\* C15: every budgeted chat() call works on a tracker of its own that starts
\* with total 0 and no history: whatever other exchanges on the same AI
\* object do, before, after or in between, the tracker holds exactly the
\* records the exchange itself added, and the summary it returns is that of
\* those records.
C15_ExchangesIsolated ==
  \A s \in Slots :
    LET x == exchanges[s] IN
      x.tracked /\ x.pc # "idle" =>
        /\ x.ref # None
        /\ \A s2 \in Slots \ {s} : exchanges[s2].ref # x.ref
        /\ heap[x.ref[1]].usageHistory = x.own
        /\ heap[x.ref[1]].totalCostCents = SumCost(x.own)
        /\ x.pc = "orchestrator" => x.own = <<>>
        /\ x.pc = "returned" /\ x.result[1].ok =>
             /\ x.result[1].val.present
             /\ x.result[1].val.value[1].totalCostCents = SumCost(x.own)
             /\ x.result[1].val.value[1].totalQueries = Len(x.own)

\* two budgeted exchanges in flight at once, each having recorded usage
C15_Witness ==
  /\ \A s \in Slots : exchanges[s].tracked /\ exchanges[s].own # <<>>
  /\ exchanges[1].pc = "invoking"
  /\ exchanges[2].pc \in {"tools", "invoking"}
  /\ exchanges[1].ref # exchanges[2].ref

(***************************************************************************)
(* Models without a pricing entry                                          *)
(***************************************************************************)
UnknownModelError(out) == ~out.ok /\ out.err.type = "Unknown model"

\* C16: a tracked guard call for a model without a pricing entry never fails
\* over the missing entry: no "Unknown model" error reaches the caller, the
\* token limit resolves to the fixed default when none was given, and a
\* successful response with usage is recorded.
C16_PricingMissDegrades ==
  /\ ~ret.result.ok => ret.result.err.type # "Unknown model"
  /\ \A i \in DOMAIN done :
       done[i].pass.tracked /\ ~HasPricing(done[i].pass.model) =>
         /\ ~UnknownModelError(done[i].out)
         /\ done[i].pass.kind \in ToolKinds /\ ~Truthy(done[i].pass.maxTokens) =>
              /\ done[i].pass.invoked
              /\ done[i].pass.limit = Some(FALLBACK_MAX_TOKENS)
         /\ done[i].end = "resolved" /\ done[i].usage # None =>
              Len(done[i].after.usageHistory) = Len(done[i].pass.before.usageHistory) + 1

\* C17: for a model without a pricing entry estimateCost does not throw: it
\* returns the cost of the token counts at the fallback model's prices (gpt-4,
\* which the table holds).
C17_EstimateCostFallsBack ==
  ret.op = "estimateCost" /\ ~HasPricing(ret.args[1]) =>
    /\ ret.result.ok
    /\ ret.result.val = RawCost(modelPricing["gpt-4"], ret.args[2], ret.args[3])

\* C18: for a model without a pricing entry getDefaultMaxTokens returns 4096
\* in every tracker state and never throws.
C18_UnknownModelDefaultIsFixed ==
  ret.op = "getDefaultMaxTokens" /\ ~HasPricing(ret.args[1]) =>
    /\ ret.result.ok
    /\ ret.result.val = 4096

(***************************************************************************)
(* The summary and the read operations                                     *)
(***************************************************************************)
\* C19: in every tracker state getSummary() reports totalQueries equal to
\* orchestratorQueries + toolQueries and to the length of usageHistory, the
\* two counts being the records of source "orchestrator" and "tool".
C19_QueryCountsAddUp ==
  LET summary == getSummary(tracker) IN
    /\ summary.totalQueries = summary.orchestratorQueries + summary.toolQueries
    /\ summary.totalQueries = Len(tracker.usageHistory)
    /\ summary.orchestratorQueries =
         Cardinality({i \in DOMAIN tracker.usageHistory :
                        tracker.usageHistory[i].source = "orchestrator"})
    /\ summary.toolQueries =
         Cardinality({i \in DOMAIN tracker.usageHistory :
                        tracker.usageHistory[i].source = "tool"})
    /\ ret.op = "getSummary" => ret.result.val = summary

C19_Witness ==
  /\ ret.op = "getSummary"
  /\ ret.result.val.orchestratorQueries >= 1
  /\ ret.result.val.toolQueries >= 2
  /\ ret.result.val.totalQueries = 3

ReadOps ==
  {"getRemainingBudgetCents", "canAfford", "estimateCost", "estimateQueryCost",
   "canAffordQuery", "getDefaultMaxTokens", "getSummary"}

\* C20: a read operation leaves maxCostCents, totalCostCents and usageHistory
\* as they were, so two getSummary() calls with no addUsage in between return
\* the same summary.
C20_ReadsLeaveTrackerAlone ==
  [][ret'.op \in ReadOps =>
       /\ tracker' = tracker
       /\ ret.op = "getSummary" /\ ret'.op = "getSummary" => ret'.result = ret.result]_vars

\* a getSummary() that follows other reads on a tracker with history
C20_Witness ==
  /\ ret.op = "getSummary"
  /\ Len(tracker.usageHistory) = 2
  /\ Overspent
  /\ ret.result.val = getSummary(tracker)

(***************************************************************************)
(* Options of chat()                                                       *)
(***************************************************************************)
\* the orchestrator pass a chat() call has just begun
StartedPass == IF chat'.pc = "orchestrator" THEN call'.pass ELSE done'[1].pass

\* C21: a chat() call is tracked exactly when its options carry maxCostCents,
\* whatever the value (0 included): such a call creates a tracker with that
\* ceiling and returns its summary; a call without the value creates no
\* tracker and returns none.
C21_TrackedByPresence ==
  [][/\ \A k \in ChatKinds, c \in Collections, m \in ChatModels, o \in ChatOptions :
          ChatStart(k, c, m, o) =>
            /\ StartedPass.tracked <=> (o # None)
            /\ o # None =>
                 /\ tracker'.maxCostCents = Cents(o[1].maxCostCents)
                 /\ StartedPass.before = Snapshot(createCostTracker(tracker.impl, 0))
     /\ chat.pc \in {"orchestrator", "tool"} /\ ChatReturned' =>
          /\ (ret'.result.val.costTracker.value # None) <=> chat.tracked
          /\ chat.tracked => ret'.result.val.costTracker.value[1] = getSummary(tracker')]_vars

\* C22: in a budgeted chat() call the orchestrator's provider call gets the
\* token ceiling min(getDefaultMaxTokens(model), 1024) when conservativeMode
\* is set and getDefaultMaxTokens(model) when it is not; the tool calls of the
\* exchange get getDefaultMaxTokens of their model either way.
C22_ConservativeModeClampsOrchestrator ==
  [][/\ \A k \in ChatKinds, c \in Collections, m \in ChatModels, o \in ChatOptions :
          /\ ChatStart(k, c, m, o)
          /\ StartedPass.tracked
          /\ StartedPass.invoked
          /\ getDefaultMaxTokens(tracker', m).ok
          => StartedPass.limit =
               IF o[1].conservativeMode
                 THEN Some(Min(getDefaultMaxTokens(tracker', m).val, 1024))
                 ELSE Some(getDefaultMaxTokens(tracker', m).val)
     /\ chat'.pc = "tool" /\ call'.pass.tracked =>
          call'.pass.limit = Some(getDefaultMaxTokens(tracker', call'.pass.model).val)]_vars

(***************************************************************************)
(* Budget exhaustion                                                       *)
(***************************************************************************)
\* the tracker when its total and history were as in snapshot
TrackerAt(snapshot) ==
  [tracker EXCEPT !.totalCostCents = snapshot.totalCostCents,
                  !.usageHistory = snapshot.usageHistory]

\* the estimate the pass's canAffordQuery call works on
EstimatedCost(pass) ==
  estimateQueryCost(TrackerAt(pass.before), pass.model, pass.promptLength, pass.estimate)

\* a tracked pass that met a tracker with nothing left and has an estimate
\* above 0
Exhausted(pass) ==
  /\ pass.tracked
  /\ pass.asked
  /\ getRemainingBudgetCents(TrackerAt(pass.before)) = 0
  /\ EstimatedCost(pass).ok
  /\ EstimatedCost(pass).val > 0

\* C23: once getRemainingBudgetCents() is 0, a tracked guard call with an
\* estimated cost above 0 is rejected with "Insufficient budget" before its
\* provider call, and nothing is recorded for it.
C23_ExhaustedBudgetRejects ==
  /\ call.pc = "invoking" => ~Exhausted(call.pass)
  /\ \A i \in DOMAIN done :
       Exhausted(done[i].pass) =>
         /\ done[i].end = "rejected"
         /\ ~done[i].pass.invoked
         /\ ~done[i].out.ok
         /\ done[i].out.err.type = "Insufficient budget"
         /\ done[i].out.err.remaining = Some(0)
         /\ done[i].after = done[i].pass.before

\* a direct tool call on a tracker whose budget earlier calls have used up
C23_Witness ==
  /\ chat = Off
  /\ Len(done) = 1
  /\ Exhausted(done[1].pass)
  /\ done[1].pass.kind = "executeOpenAi"
  /\ tracker.maxCostCents > 0
  /\ tracker.usageHistory # <<>>
  /\ done[1].end = "rejected"

(***************************************************************************)
(* The fields a tracker object exposes                                     *)
(***************************************************************************)
\* cost-tracker.ts returns an object literal { totalCostCents, maxCostCents,
\* usageHistory, ... }: the two numbers are copied when the tracker is
\* created, the array is the one addUsage pushes to.  CostTrackerImpl's
\* methods work on the public fields themselves.
PublicFields(t) ==
  [totalCostCents |-> IF t.impl = "closure"
                        THEN createCostTracker(t.impl, t.maxCostCents).totalCostCents
                        ELSE t.totalCostCents,
   maxCostCents |-> t.maxCostCents,
   usageHistory |-> t.usageHistory]

\* C24: the fields read from the tracker object agree with its state: 0, the
\* ceiling and no records at creation, and after addUsage calls the total
\* getSummary() reports (the sum of the recorded costs) and the records added.
C24_PublicFieldsInStep ==
  /\ PublicFields(tracker).maxCostCents = getSummary(tracker).maxCostCents
  /\ PublicFields(tracker).usageHistory = tracker.usageHistory
  /\ PublicFields(tracker).totalCostCents = getSummary(tracker).totalCostCents
  /\ PublicFields(tracker).totalCostCents = SumCost(tracker.usageHistory)

(***************************************************************************)
(* The tracker handed from chat() to the tools                             *)
(***************************************************************************)
\* C25: ToolCollection.execute hands the tracker it was given to the tool: in
\* a budgeted exchange every tool call is checked against the tracker of the
\* orchestrator turn and its usage is recorded there; in an exchange without
\* a tracker no tool call has one.
C25_CollectionPassesTracker ==
  [][chat.pc \in {"orchestrator", "tool"} =>
       /\ chat'.pc = "tool" =>
            /\ call'.pass.tracked <=> chat.tracked
            /\ call'.pass.tracked => call'.pass.before = Snapshot(tracker')
       /\ \A i \in DOMAIN done' :
            done'[i].pass.kind \in ToolKinds =>
              /\ done'[i].pass.tracked <=> chat.tracked
              /\ /\ chat.tracked
                 /\ done'[i].end = "resolved"
                 /\ done'[i].usage # None
                 /\ done'[i].out.ok
                 => Len(done'[i].after.usageHistory) =
                      Len(done'[i].pass.before.usageHistory) + 1]_vars

(***************************************************************************)
(* The documented bands of the token ceiling                               *)
(***************************************************************************)
\* C26: for a priced model and a positive budget, getDefaultMaxTokens is the
\* model's full output capacity while 90% or more of the budget remains, at
\* most 2048 while 70-90% remains, and at most 512 below 70%.
C26_DocumentedBands ==
  ret.op = "getDefaultMaxTokens" /\ HasPricing(ret.args[1]) /\ tracker.maxCostCents > 0 =>
    LET maxOut == modelPricing[ret.args[1]].max_output_tokens
        remaining == getRemainingBudgetCents(tracker)
    IN /\ ret.result.ok
       /\ 10 * remaining >= 9 * tracker.maxCostCents => ret.result.val = maxOut
       /\ /\ 10 * remaining < 9 * tracker.maxCostCents
          /\ 10 * remaining >= 7 * tracker.maxCostCents
          => ret.result.val <= 2048
       /\ 10 * remaining < 7 * tracker.maxCostCents => ret.result.val <= 512

(***************************************************************************)
(* The output estimate of the affordability check                          *)
(***************************************************************************)
\* the output estimate PreCheck is to hand to canAffordQuery
ExpectedEstimate(pass) ==
  IF pass.maxTokens # None
    THEN pass.maxTokens
    ELSE Some(getDefaultMaxTokens(TrackerAt(pass.before), pass.model).val)

\* the estimate is present and is the expected one
EstimateGiven(pass) ==
  /\ pass.estimate # None
  /\ pass.maxTokens = None => getDefaultMaxTokens(TrackerAt(pass.before), pass.model).ok
  /\ pass.estimate = ExpectedEstimate(pass)

\* C27: every tracked guard call that asks canAffordQuery hands it an output
\* estimate: the explicit maxTokens if one was given, otherwise
\* getDefaultMaxTokens(model).
C27_EstimateNeverOmitted ==
  /\ call.pc = "invoking" /\ call.pass.tracked /\ call.pass.asked => EstimateGiven(call.pass)
  /\ \A i \in DOMAIN done :
       done[i].pass.tracked /\ done[i].pass.asked => EstimateGiven(done[i].pass)

(***************************************************************************)
(* A tracker with a budget of zero                                         *)
(***************************************************************************)
\* C28: with maxCostCents = 0 canAfford(0) is true, canAfford(1) is false,
\* and getDefaultMaxTokens for a priced model is the minimal tier
\* min(maxOutputTokens, 512).
C28_ZeroBudgetIsMinimalTier ==
  tracker.maxCostCents = 0 =>
    /\ ret.op = "canAfford" /\ ret.args[1] = 0 => ret.result.val
    /\ ret.op = "canAfford" /\ ret.args[1] = Cents(1) => ~ret.result.val
    /\ ret.op = "getDefaultMaxTokens" /\ HasPricing(ret.args[1]) =>
         /\ ret.result.ok
         /\ ret.result.val = Min(modelPricing[ret.args[1]].max_output_tokens, 512)

(***************************************************************************)
(* The token ceiling over the life of a tracker                            *)
(***************************************************************************)
\* the most a model can put out: its max_output_tokens, the fixed fallback
\* for a model without pricing
MaxOutputTokensOf(model) ==
  IF HasPricing(model) THEN modelPricing[model].max_output_tokens ELSE FALLBACK_MAX_TOKENS

\* C29: for every model getDefaultMaxTokens is a positive integer no greater
\* than the model's max output tokens (4096 without pricing), and it never
\* increases as usage is added.
C29_DefaultMaxTokensBoundedAndMonotone ==
  [][\A m \in Models :
       /\ getDefaultMaxTokens(tracker, m).ok
       /\ getDefaultMaxTokens(tracker', m).ok
       /\ getDefaultMaxTokens(tracker, m).val \in 1..MaxOutputTokensOf(m)
       /\ getDefaultMaxTokens(tracker', m).val \in 1..MaxOutputTokensOf(m)
       /\ getDefaultMaxTokens(tracker', m).val <= getDefaultMaxTokens(tracker, m).val]_vars

(***************************************************************************)
(* The estimate of a query's cost                                          *)
(***************************************************************************)
\* C30: estimateQueryCost(model, promptLength, expectedOutputTokens) is
\* estimateCost(model, ceil(promptLength / 4), o) with o the supplied
\* expectedOutputTokens, or getDefaultMaxTokens(model) in the current budget
\* state when none is supplied.
C30_QueryCostIsEstimateCost ==
  ret.op = "estimateQueryCost" =>
    LET model == ret.args[1]
        inputTokens == CeilDiv(ret.args[2], 4)
        default == getDefaultMaxTokens(tracker, model)
    IN ret.result =
         IF ret.args[3] # None THEN estimateCost(tracker, model, inputTokens, ret.args[3][1])
         ELSE IF default.ok THEN estimateCost(tracker, model, inputTokens, default.val)
         ELSE default

(***************************************************************************)
(* A provider call that fails                                              *)
(***************************************************************************)
\* the error a caller is to see for a thrown value, under the given prefixes
Rethrown(prefixes, thrown) ==
  Throw([type |-> MessageOf(thrown), wrap |-> prefixes, remaining |-> None])

\* the prefixes of the form "<tool or provider name> execution failed"
ExecutionFailedPrefixes == {ErrorPrefixOf(kind) : kind \in ToolKinds}

\* the entries of chat's tool loop after the step
ResultsAfter == IF chat'.pc = "tool" THEN chat'.results ELSE ret'.result.val.toolCalls[1]

\* C31 as stated: whenever the provider call of a guard pass fails, of a tool
\* or of the orchestrator turn, the caller gets
\* "<tool or provider name> execution failed: <message>".
C31_FailureIsExecutionFailed ==
  \A i \in DOMAIN done :
    done[i].end = "failed" =>
      LET e == IF done[i].pass.kind \in ChatKinds THEN ret.result ELSE done[i].out
      IN /\ ~e.ok
         /\ e.err.wrap # <<>>
         /\ e.err.wrap[Len(e.err.wrap)] \in ExecutionFailedPrefixes

\* C31 (amended): a pass invokes its provider once; when the call fails the
\* error goes to the caller with the original message ("Unknown error" for a
\* thrown value that is no Error), prefixed "<tool or provider name> execution
\* failed" by a tool and "AI chat failed" by the orchestrator turn; the pass
\* ends there and the call is not made again.
C31_FailureRethrownOnce ==
  [][/\ \A thrown \in ThrownValues :
          ToolRejects(thrown) =>
            /\ ret'.result =
                 Rethrown((IF call.via = None THEN <<>> ELSE <<CollectionPrefix>>)
                            \o <<ErrorPrefixOf(call.pass.kind)>>, thrown)
            /\ call' = Idle
            /\ Len(done') = 1
            /\ done'[1].pass = call.pass
            /\ done'[1].end = "failed"
     /\ \A thrown \in ThrownValues :
          ChatToolRejects(thrown) =>
            /\ Len(ResultsAfter) > Len(chat.results)
            /\ ResultsAfter[Len(chat.results) + 1].toolCall = Head(chat.pending)
            /\ ResultsAfter[Len(chat.results) + 1].out =
                 Rethrown(<<CollectionPrefix, ErrorPrefixOf(call.pass.kind)>>, thrown)
            /\ done'[1].pass = call.pass
            /\ done'[1].end = "failed"
            /\ chat'.pc = "tool" => Len(chat'.pending) < Len(chat.pending)
     /\ \A thrown \in ThrownValues :
          OrchestratorRejects(thrown) =>
            /\ ret'.result = Rethrown(<<ChatPrefix>>, thrown)
            /\ chat' = NoChat
            /\ call' = Idle]_vars

\* a tool's provider call threw a value that is no Error
C31_Witness ==
  /\ chat = Off
  /\ Len(done) = 1
  /\ done[1].end = "failed"
  /\ done[1].pass.invoked
  /\ ret.result = Rethrown(<<ErrorPrefixOf(done[1].pass.kind)>>, [isError |-> FALSE, message |-> "provider"])

(***************************************************************************)
(* The summary in a returned envelope                                      *)
(***************************************************************************)
\* the entries of a returned exchange whose tool call succeeded and reported
\* usage
ReportedToolCalls(toolCalls) ==
  {i \in DOMAIN toolCalls : toolCalls[i].out.ok /\ toolCalls[i].out.val.usage # None}

\* C32: the summary returned by a successful tracked call is getSummary() of
\* the tracker at the moment of return and counts the record of that very
\* call; chat's summary counts every tool call of the exchange as well.
C32_SummaryIsFresh ==
  /\ /\ chat = Off
     /\ Len(done) = 1
     /\ done[1].end = "resolved"
     /\ done[1].pass.tracked
     /\ done[1].out.ok
     => /\ done[1].out.val.costTracker.value = Some(getSummary(tracker))
        /\ done[1].usage # None =>
             /\ getSummary(tracker).totalQueries = Len(done[1].pass.before.usageHistory) + 1
             /\ getSummary(tracker).totalCostCents =
                  done[1].pass.before.totalCostCents
                    + tracker.usageHistory[Len(tracker.usageHistory)].costCents
  /\ ChatReturned /\ ret.result.val.costTracker.value # None =>
       /\ ret.result.val.costTracker.value = Some(getSummary(tracker))
       /\ getSummary(tracker).totalCostCents = SumCost(tracker.usageHistory)
       /\ getSummary(tracker).orchestratorQueries <= 1
       /\ getSummary(tracker).toolQueries =
            IF ret.result.val.toolCalls = None THEN 0
            ELSE Cardinality(ReportedToolCalls(ret.result.val.toolCalls[1]))

(***************************************************************************)
(* The history only grows                                                  *)
(***************************************************************************)
IsPrefix(a, b) == Len(a) <= Len(b) /\ SubSeq(b, 1, Len(a)) = a

\* C33: on one tracker every step keeps the records already in usageHistory
\* in place and unaltered and appends at most one at the end; a record made
\* by a guard has costCents >= 0 and totalCostCents never decreases.  (The
\* first step of a chat() call makes a new tracker.)
C33_HistoryAppendOnly ==
  [][chat # NoChat =>
       /\ IsPrefix(tracker.usageHistory, tracker'.usageHistory)
       /\ Len(tracker'.usageHistory) <= Len(tracker.usageHistory) + 1
       /\ tracker'.totalCostCents >= tracker.totalCostCents
       /\ tracker'.maxCostCents = tracker.maxCostCents
       /\ Len(tracker'.usageHistory) = Len(tracker.usageHistory) + 1 =>
            /\ tracker'.usageHistory[Len(tracker'.usageHistory)].costCents >= 0
            /\ tracker'.totalCostCents =
                 tracker.totalCostCents
                   + tracker'.usageHistory[Len(tracker'.usageHistory)].costCents]_vars

\* a tool call has been recorded behind records the tracker already held
C33_Witness ==
  /\ chat = Off
  /\ Len(done) = 1
  /\ done[1].end = "resolved"
  /\ done[1].pass.before.usageHistory # <<>>
  /\ Len(tracker.usageHistory) = Len(done[1].pass.before.usageHistory) + 1
  /\ IsPrefix(done[1].pass.before.usageHistory, tracker.usageHistory)
  /\ tracker.usageHistory[Len(tracker.usageHistory)].source = "tool"

(***************************************************************************)
(* Tool calls the collection cannot hand on                                *)
(***************************************************************************)
\* C34: ToolCollection.execute rejects with "Tool '<name>' not found in
\* registry" for a name that is not registered and with an error prefixed
\* "Tool execution failed" for arguments that are no JSON; in both cases no
\* tool runs, no provider call is pending and the tracker is as before.
C34_UnusableToolCallRejected ==
  [][/\ call = Idle
     /\ ret'.op = "execute"
     /\ ret'.args # <<>>
     /\ ret'.args[1] \notin DOMAIN registry \/ ret'.args[2] \notin JsonTexts
     => /\ ~ret'.result.ok
        /\ ret'.args[1] \notin DOMAIN registry =>
             ret'.result.err = Error("Tool not found in registry", None)
        /\ ret'.args[1] \in DOMAIN registry =>
             /\ ret'.result.err.wrap = <<CollectionPrefix>>
             /\ ret'.result.err.type = "SyntaxError"
        /\ done' = <<>>
        /\ call' = Idle
        /\ tracker' = tracker]_vars

\* a registered tool was handed arguments that are no JSON, on a tracker
\* that holds records
C34_Witness ==
  /\ ret.op = "execute"
  /\ ret.args[1] \in DOMAIN registry
  /\ ret.args[2] \notin JsonTexts
  /\ ~ret.result.ok
  /\ ret.result.err.wrap = <<CollectionPrefix>>
  /\ tracker.usageHistory # <<>>
  /\ done = <<>>

(***************************************************************************)
(* A batch of tool calls on one tracker.  The caller starts the calls all  *)
(* at once (each runs up to its provider call, the first await) or awaits  *)
(* each before it starts the next, as the for loop of chat() does.  A call *)
(* is suspended only at its provider call; every tracker method runs to    *)
(* its end within one step.                                                *)
(***************************************************************************)
BatchModes == {"all", "awaited"}

\* a pass of the batch that has come to its end
Ended(pass, end, usage, out) ==
  [pc |-> "ended", pass |-> pass, end |-> end, usage |-> usage, out |-> out]

\* the slots whose pass is suspended at its provider call
InFlight == {s \in Slots : inflight.passes[s].pc = "invoking"}

\* the caller begins a batch on its tracker
BatchStart(mode) ==
  /\ chat = Off
  /\ call = Idle
  /\ inflight = NoBatch
  /\ inflight' = [inflight EXCEPT !.mode = mode]
  /\ UNCHANGED <<tracker, chat, call, done, ret, heap, exchanges>>

\* tool.execute(params, costTracker) of the batch's next call, up to its
\* provider call
\* a faulty variant: the loop does not await the call before
PassStarts_Unawaited(s, kind, model) ==
  LET p == Prepare(kind, tracker, TRUE, model, ToolPromptLength, None)
      pass == Pass(kind, tracker, TRUE, model, ToolPromptLength, None, p)
  IN /\ inflight.mode # "none"
     /\ inflight.passes[s].pc = "idle"
     /\ \A r \in Slots : r < s => inflight.passes[r].pc # "idle"
     /\ inflight' =
          [inflight EXCEPT !.passes[s] =
             IF p.out.ok THEN [pc |-> "invoking", pass |-> pass]
             ELSE Ended(pass, "rejected", None, p.out)]
     /\ UNCHANGED <<tracker, chat, call, done, ret, heap, exchanges>>

PassStarts(s, kind, model) ==
  LET p == Prepare(kind, tracker, TRUE, model, ToolPromptLength, None)
      pass == Pass(kind, tracker, TRUE, model, ToolPromptLength, None, p)
  IN /\ inflight.mode # "none"
     /\ inflight.passes[s].pc = "idle"
     /\ \A r \in Slots : r < s => inflight.passes[r].pc # "idle"
     /\ inflight.mode = "awaited" => \A r \in Slots : r < s => inflight.passes[r].pc = "ended"
     /\ inflight' =
          [inflight EXCEPT !.passes[s] =
             IF p.out.ok THEN [pc |-> "invoking", pass |-> pass]
             ELSE Ended(pass, "rejected", None, p.out)]
     /\ UNCHANGED <<tracker, chat, call, done, ret, heap, exchanges>>

\* the provider call of a pass resolves: the rest of the tool runs on the
\* tracker as it is now
\* a faulty variant: the record is added to the tracker as the pass found it
PassResolves_Stale(s, usage) ==
  /\ s \in InFlight
  /\ LET pass == inflight.passes[s].pass
         r == ToolResolved(pass.kind, TrackerAt(pass.before), pass.tracked, pass.model, usage)
     IN /\ tracker' = r.tracker
        /\ inflight' = [inflight EXCEPT !.passes[s] = Ended(pass, "resolved", usage, r.out)]
  /\ UNCHANGED <<chat, call, done, ret, heap, exchanges>>

PassResolves(s, usage) ==
  /\ s \in InFlight
  /\ LET pass == inflight.passes[s].pass
         r == ToolResolved(pass.kind, tracker, pass.tracked, pass.model, usage)
     IN /\ tracker' = r.tracker
        /\ inflight' = [inflight EXCEPT !.passes[s] = Ended(pass, "resolved", usage, r.out)]
  /\ UNCHANGED <<chat, call, done, ret, heap, exchanges>>

\* the provider call of a pass rejects
PassRejects(s, thrown) ==
  /\ s \in InFlight
  /\ LET pass == inflight.passes[s].pass
         r == ToolRejected(pass.kind, tracker, pass.tracked, pass.model, thrown)
     IN /\ tracker' = r.tracker
        /\ inflight' = [inflight EXCEPT !.passes[s] = Ended(pass, "failed", None, r.out)]
  /\ UNCHANGED <<chat, call, done, ret, heap, exchanges>>

NextConcurrent ==
  \/ \E mode \in BatchModes : BatchStart(mode)
  \/ \E s \in Slots, k \in ToolKinds, m \in ToolModels : PassStarts(s, k, m)
  \/ \E s \in Slots, u \in Usages : PassResolves(s, u)
  \/ \E s \in Slots, thrown \in ThrownValues : PassRejects(s, thrown)

InitConcurrent == Init /\ chat = Off

SpecConcurrent == InitConcurrent /\ [][NextConcurrent]_vars

\* C35: each pass is admitted against the remaining budget its own PreCheck
\* finds, whatever other passes are in flight; a caller that awaits each call
\* before the next, as chat's tool loop does, never has two passes in flight,
\* so an admitted pass was checked against the budget as it now is.
C35_OnlyUnawaitedBatchOveradmits ==
  /\ \A s \in InFlight :
       LET pass == inflight.passes[s].pass IN
         /\ pass.asked => pass.answer
         /\ pass.asked /\ EstimatedCost(pass).ok =>
              EstimatedCost(pass).val <= getRemainingBudgetCents(TrackerAt(pass.before))
  /\ inflight.mode = "awaited" =>
       /\ Cardinality(InFlight) <= 1
       /\ \A s \in InFlight : inflight.passes[s].pass.before = Snapshot(tracker)

\* both passes of a batch started at once are admitted against the same
\* remaining budget, which covers either estimate but not the two together
C35_Witness ==
  /\ inflight.mode = "all"
  /\ InFlight = Slots
  /\ tracker.maxCostCents > 0
  /\ \A s \in Slots :
       /\ inflight.passes[s].pass.asked
       /\ inflight.passes[s].pass.before = Snapshot(tracker)
       /\ EstimatedCost(inflight.passes[s].pass).ok
       /\ EstimatedCost(inflight.passes[s].pass).val <= getRemainingBudgetCents(tracker)
  /\ EstimatedCost(inflight.passes[1].pass).val + EstimatedCost(inflight.passes[2].pass).val
       > getRemainingBudgetCents(tracker)

\* the passes of the batch that succeeded with reported usage
RecordedPasses ==
  {s \in Slots : /\ inflight.passes[s].pc = "ended"
                 /\ inflight.passes[s].end = "resolved"
                 /\ inflight.passes[s].usage # None
                 /\ inflight.passes[s].out.ok}

\* the record is the one the pass of slot s hands to addUsage
IsRecordOf(record, s) ==
  /\ record.model = inflight.passes[s].pass.model
  /\ record.inputTokens = inflight.passes[s].usage[1][1]
  /\ record.outputTokens = inflight.passes[s].usage[1][2]
  /\ record.source = "tool"
  /\ record.toolName = Some(ToolNameOf(inflight.passes[s].pass.kind))

\* C36: with passes interleaved at their provider calls only, the total is
\* the sum of the recorded costs and the history holds exactly one record
\* per pass that succeeded with reported usage: no update is lost or made
\* twice.
C36_NoLostUpdate ==
  inflight.mode # "none" =>
    /\ tracker.totalCostCents = SumCost(tracker.usageHistory)
    /\ Len(tracker.usageHistory) = Cardinality(RecordedPasses)
    /\ \A i \in DOMAIN tracker.usageHistory :
         \E s \in RecordedPasses : IsRecordOf(tracker.usageHistory[i], s)
    /\ \A s \in RecordedPasses :
         \E i \in DOMAIN tracker.usageHistory : IsRecordOf(tracker.usageHistory[i], s)

\* two passes that were in flight together have both been recorded
C36_Witness ==
  /\ inflight.mode = "all"
  /\ RecordedPasses = Slots
  /\ inflight.passes[1].pass.before = inflight.passes[2].pass.before
  /\ Len(tracker.usageHistory) = 2
  /\ tracker.totalCostCents > 0

(***************************************************************************)
(* Spending stays within the budget                                        *)
(***************************************************************************)
\* the output-token figure the PreCheck of a pass worked with
OutputFigure(pass) ==
  estimatedOutputTokens(TrackerAt(pass.before), pass.model, pass.promptLength,
                        pass.estimate).val

\* a tracked call on a priced model that was admitted and recorded, with
\* reported token counts within those of its PreCheck
WithinEstimate(entry) ==
  /\ entry.end = "resolved"
  /\ entry.pass.tracked
  /\ entry.pass.asked
  /\ HasPricing(entry.pass.model)
  /\ entry.usage # None
  /\ entry.out.ok
  /\ entry.usage[1][1] <= estimatedInputTokens(entry.pass.promptLength)
  /\ entry.usage[1][2] <= OutputFigure(entry.pass)

\* C37: with calls made one after the other on priced models and reported
\* token counts within those of the PreCheck, each recorded cost is at most
\* the call's PreCheck estimate, a call never takes the total past the
\* ceiling, and the total of a chat() exchange never exceeds maxCostCents.
C37_SpendingWithinBudget ==
  /\ \A i \in DOMAIN done :
       WithinEstimate(done[i]) =>
         /\ done[i].after.totalCostCents - done[i].pass.before.totalCostCents
              <= EstimatedCost(done[i].pass).val
         /\ done[i].pass.before.totalCostCents <= tracker.maxCostCents =>
              done[i].after.totalCostCents <= tracker.maxCostCents
  /\ /\ chat.pc \in {"orchestrator", "tool"}
     /\ chat.tracked
     /\ \A i \in DOMAIN tracker.usageHistory : HasPricing(tracker.usageHistory[i].model)
     => ~Overspent

\* a budgeted exchange has recorded its orchestrator turn and a tool call
C37_Witness ==
  /\ chat.pc = "tool"
  /\ chat.tracked
  /\ Len(done) = 1
  /\ WithinEstimate(done[1])
  /\ done[1].pass.kind \in ToolKinds
  /\ Len(tracker.usageHistory) = 2
  /\ tracker.totalCostCents > 0
  /\ ~Overspent

(***************************************************************************)
(* The limit handed to the provider and the figure of the estimate         *)
(***************************************************************************)
\* C38: in a tracked tool call the output-token limit handed to the provider
\* is the output-token figure its PreCheck estimate was computed with: the
\* explicit maxTokens if given, otherwise getDefaultMaxTokens(model) on the
\* tracker as the PreCheck found it.
C38_LimitIsEstimatedFigure ==
  /\ call.pc = "invoking"
  /\ call.pass.kind \in ToolKinds
  /\ call.pass.tracked
  /\ call.pass.asked
  /\ EstimatedCost(call.pass).ok
  => /\ call.pass.before = Snapshot(tracker)
     /\ call.pass.limit = Some(OutputFigure(call.pass))
     /\ getDefaultMaxTokens(tracker, call.pass.model).ok
     /\ OutputFigure(call.pass) =
          IF call.pass.maxTokens # None THEN call.pass.maxTokens[1]
          ELSE getDefaultMaxTokens(tracker, call.pass.model).val

(***************************************************************************)
(* The history of one exchange                                             *)
(***************************************************************************)
\* a budgeted exchange is in progress or has just returned: tracker is the
\* tracker chat() created for it
InBudgetedExchange ==
  \/ chat.pc \in {"orchestrator", "tool"} /\ chat.tracked
  \/ ChatReturned /\ ret.result.val.costTracker.value # None

\* the tool calls the orchestrator of the exchange has requested so far
RequestedSoFar ==
  IF chat.pc = "tool" THEN chat.requested
  ELSE IF chat.pc = "orchestrator" THEN <<>>
  ELSE ret.args[1]

\* the names the records of the registered tools among the calls carry
RECURSIVE ToolNamesOf(_)
ToolNamesOf(toolCalls) ==
  IF toolCalls = <<>> THEN <<>>
  ELSE IF Head(toolCalls).name \in DOMAIN registry
    THEN <<ToolNameOf(registry[Head(toolCalls).name])>> \o ToolNamesOf(Tail(toolCalls))
    ELSE ToolNamesOf(Tail(toolCalls))

\* the tool names of the records with source "tool", in the order of the
\* history
RECURSIVE RecordedToolNames(_)
RecordedToolNames(history) ==
  IF history = <<>> THEN <<>>
  ELSE IF Head(history).source = "tool"
    THEN Head(history).toolName \o RecordedToolNames(Tail(history))
    ELSE RecordedToolNames(Tail(history))

\* a can be had from b by leaving elements out
RECURSIVE IsSubsequence(_, _)
IsSubsequence(a, b) ==
  IF a = <<>> THEN TRUE
  ELSE IF b = <<>> THEN FALSE
  ELSE IF Head(a) = Head(b) THEN IsSubsequence(Tail(a), Tail(b))
  ELSE IsSubsequence(a, Tail(b))

\* C39: the history of a budgeted exchange holds at most one record with
\* source "orchestrator", which comes before every record with source
\* "tool"; the tool records are in the order of the tool calls, and there
\* are no more of them than tool calls the orchestrator requested.
C39_ExchangeHistoryShape ==
  InBudgetedExchange =>
    /\ CountSource(tracker.usageHistory, "orchestrator") <= 1
    /\ \A i \in DOMAIN tracker.usageHistory :
         tracker.usageHistory[i].source = "orchestrator" => i = 1
    /\ CountSource(tracker.usageHistory, "tool") <= Len(RequestedSoFar)
    /\ CountSource(tracker.usageHistory, "orchestrator")
         + CountSource(tracker.usageHistory, "tool") = Len(tracker.usageHistory)
    /\ IsSubsequence(RecordedToolNames(tracker.usageHistory), ToolNamesOf(RequestedSoFar))

\* an exchange returned with its orchestrator turn and both of its tool
\* calls recorded
C39_Witness ==
  /\ ChatReturned
  /\ ret.result.val.costTracker.value # None
  /\ Len(ret.args[1]) = 2
  /\ Len(tracker.usageHistory) = 3
  /\ tracker.usageHistory[1].source = "orchestrator"
  /\ RecordedToolNames(tracker.usageHistory) = ToolNamesOf(ret.args[1])

(***************************************************************************)
(* Every call comes to an end.  A provider call that has been made         *)
(* eventually resolves or rejects; everything else a guard or chat() does  *)
(* runs to its next provider call without waiting.                         *)
(***************************************************************************)
\* the pending provider call of a direct tool call, of the orchestrator turn
\* or of a tool call in chat's loop gets its response
ProviderResponds ==
  \/ \E u \in Usages : ToolResolves(u)
  \/ \E thrown \in ThrownValues : ToolRejects(thrown)
  \/ \E u \in Usages, tcs \in ToolCallLists : OrchestratorResolves(u, tcs)
  \/ \E thrown \in ThrownValues : OrchestratorRejects(thrown)
  \/ \E u \in Usages : ChatToolResolves(u)
  \/ \E thrown \in ThrownValues : ChatToolRejects(thrown)

\* how the passes the last step ended came out
Outcomes ==
  [i \in DOMAIN done |->
     <<done[i].end, IF done[i].out.ok THEN "ok" ELSE done[i].out.err.type>>]

\* what a response of a provider moves on
progress == <<tracker, chat, call, Outcomes>>

SpecLive == Spec /\ WF_progress(ProviderResponds)

\* a direct tool call has ended in its one outcome
ToolCallEnded ==
  /\ call = Idle
  /\ Len(done) = 1
  /\ done[1].end \in {"resolved", "failed"}
  /\ done[1].end = "failed" => ~ret.result.ok

\* chat() has rejected, or resolved with one entry per requested tool call
ChatEnded ==
  /\ chat = NoChat
  /\ call = Idle
  /\ ret.op = "chat"
  /\ ret.result.ok =>
       /\ ret.args # <<>>
       /\ IF ret.args[1] = <<>> THEN ret.result.val.toolCalls = None
          ELSE CallsOf(ret.result.val.toolCalls[1]) = ret.args[1]

\* C40: a guard pass suspended at its provider call eventually ends, as
\* completed or as a provider failure, and a chat() call in progress
\* eventually rejects or resolves with each requested tool call attempted
\* once.
C40_EveryCallEnds ==
  /\ (chat = Off /\ call.pc = "invoking") ~> ToolCallEnded
  /\ (chat.pc \in {"orchestrator", "tool"}) ~> ChatEnded

\* an exchange resolved after two tool calls, the first of which failed
C40_Witness ==
  /\ ChatEnded
  /\ ret.result.ok
  /\ Len(ret.args[1]) = 2
  /\ ~ret.result.val.toolCalls[1][1].out.ok
  /\ ret.result.val.toolCalls[1][1].out.err.type = "Unknown error"
  /\ ret.result.val.toolCalls[1][2].out.ok

====
